---- MODULE Spec2Model ----
(***************************************************************************)
(* x402-dev payment rails: the Cloudflare worker (src/src/worker/index.ts) *)
(* with its in-memory payment map and optional KV namespace, and the       *)
(* client's request executor (src/src/lib/client.ts).                      *)
(*                                                                         *)
(* Strings the code inspects character by character (payment ids, URL path *)
(* segments) are sequences of one-character strings.  Timestamps are the   *)
(* millisecond values behind the ISO strings the code stores: toISOString  *)
(* and new Date(iso).getTime() are inverse on whole milliseconds, so the   *)
(* integer is the ISO string's content.  Date.now() is counted from the    *)
(* instant the isolate starts.                                             *)
(***************************************************************************)
EXTENDS Integers, Sequences, FiniteSets, TLC

VARIABLES
    paymentsStore,  \* worker/index.ts:14  the Map, as its entries in insertion order
    kv,             \* the PAYMENTS_KV namespace: key -> [value, exp]
    hasKV,          \* whether env.PAYMENTS_KV is bound
    now,            \* the clock behind Date.now() / new Date()
    call,           \* the last invocation (its inputs)
    resp,           \* the Response of the last invocation
    retries,        \* X402Client.retries
    timeout,        \* X402Client.timeout
    optRetries,     \* options.retries as the caller passed it (a JS value)
    pc,             \* makeRequest: position of the running call
    attempt,        \* makeRequest: the loop variable
    lastError,      \* makeRequest: lastError
    attempts,       \* outcomes of the fetches issued by the running call, in order
    sleeps,         \* arguments of the sleep() calls made by the running call, in order
    result,         \* what makeRequest returned or threw
    timer,          \* makeRequest: the abort timer of the current attempt
    clicks,         \* PaymentButton: clicks of the button so far
    initiating,     \* handlePayment calls suspended at their await of initiatePayment
    pollInterval,   \* per pollPaymentStatus call: whether its setInterval is live
    pollAttempts,   \* per pollPaymentStatus call: the closure variable attempts
    pollRequests,   \* per pollPaymentStatus call: status requests issued so far
    pollInflight,   \* per pollPaymentStatus call: status requests not yet settled
    pollLast,       \* what the status request settled last came to
    pollRun,        \* the pollPaymentStatus call whose callback went on last
    loading,        \* PaymentButton: the state loading
    errorText,      \* PaymentButton: the state error ("" for null)
    reports,        \* onSuccess / onError calls made so far, in order
    mounted,        \* whether the component is still on the page
    component,      \* which declaration of PaymentButton the page renders
    webhookSecret,  \* X402Client.config.webhookSecret (a JS value)
    vPayload,       \* verifySignature: the argument payload
    vSignature,     \* verifySignature: the argument signature
    vSigned,        \* the payload the sender computed the signature over
    vResult,        \* what verifySignature returned, or that it threw
    verification,   \* what the last verifyPayment call returned, or that it threw
    pending,        \* worker: handlers suspended at their await of PAYMENTS_KV.put
    history,        \* the (id, status, updatedAt) of every transition made so far
    listParams,     \* X402Client.listPayments: the argument params
    wire            \* the requests the client has sent, each with the worker's answer

serverVars == <<paymentsStore, kv, hasKV, now, call, resp>>
clientVars == <<retries, timeout, optRetries, pc, attempt, lastError, attempts, sleeps, result,
                timer>>
pollVars == <<clicks, initiating, pollInterval, pollAttempts, pollRequests, pollInflight,
              pollLast, pollRun, loading, errorText, reports, mounted, component>>
verifyVars == <<webhookSecret, vPayload, vSignature, vSigned, vResult, verification>>
concVars == <<pending, history>>
vars == <<paymentsStore, kv, hasKV, now, call, resp,
          retries, timeout, optRetries, pc, attempt, lastError, attempts, sleeps, result,
          timer,
          clicks, initiating, pollInterval, pollAttempts, pollRequests, pollInflight,
          pollLast, pollRun, loading, errorText, reports, mounted, component,
          webhookSecret, vPayload, vSignature, vSigned, vResult, verification,
          pending, history, listParams, wire>>

----------------------------------------------------------------------------
(* Bounds of the model *)

\* payments the in-memory map may hold before create is no longer offered
MaxPayments == 2
\* millisecond ticks the clock may take within one hour
MaxTicks == 1
\* whole-hour jumps the clock may take
MaxHours == 1
\* largest options.retries value a client is constructed with
MaxRetriesOpt == 2
\* status requests of one button that may be awaiting their answer at once
MaxInFlight == 2
\* clicks one button takes
MaxClicks == 1
\* handlers that may be suspended at their KV put at once, where cancels and
\* creations are interleaved with each other (ConcSpec, RaceSpec)
MaxPending == 2
\* handlers that may be suspended at their KV put at once elsewhere
MaxSuspended == 1
\* code units of the longest webhook payload
MaxPayloadLen == 2
\* largest options.retries of a client that calls the worker
MaxResends == 2

----------------------------------------------------------------------------
(* Program constants *)

\* worker/index.ts:149  Date.now() + 3600000
TTL_MS == 3600000
\* worker/index.ts:170  expirationTtl: 3600 (seconds)
KV_TTL_S == 3600
\* client.ts:24  options?.timeout || 30000
DEFAULT_TIMEOUT == 30000
\* client.ts:25  options?.retries || 3
DEFAULT_RETRIES == 3
\* worker/index.ts:258  url.searchParams.get('limit') || '10'
DEFAULT_LIMIT == 10

----------------------------------------------------------------------------
(* Characters and strings *)

Lower == {"a","b","c","d","e","f","g","h","i","j","k","l","m",
          "n","o","p","q","r","s","t","u","v","w","x","y","z"}
Upper == {"A","B","C","D","E","F","G","H","I","J","K","L","M",
          "N","O","P","Q","R","S","T","U","V","W","X","Y","Z"}
DigitChars == <<"0","1","2","3","4","5","6","7","8","9">>
Digit == {DigitChars[i] : i \in 1..10}

\* Number.prototype.toString() of a non-negative integer, as in `${Date.now()}`
RECURSIVE DecString(_)
DecString(n) ==
    IF n < 10 THEN <<DigitChars[n + 1]>>
    ELSE DecString(n \div 10) \o <<DigitChars[(n % 10) + 1]>>

SegApi == <<"a","p","i">>
SegPayments == <<"p","a","y","m","e","n","t","s">>
SegCancel == <<"c","a","n","c","e","l">>
SegProtected == <<"p","r","o","t","e","c","t","e","d">>
SegHealth == <<"h","e","a","l","t","h">>
SegWebhooks == <<"w","e","b","h","o","o","k","s">>
SegPayment == <<"p","a","y","m","e","n","t">>
PayPrefix == <<"p","a","y","_">>

----------------------------------------------------------------------------
(* JavaScript values that arrive in a JSON body or an options object *)

Undefined == [t |-> "undefined", n |-> 0, s |-> ""]
Null == [t |-> "null", n |-> 0, s |-> ""]
Num(x) == [t |-> "number", n |-> x, s |-> ""]
Str(x) == [t |-> "string", n |-> 0, s |-> x]

\* ToBoolean: undefined, null, 0 and "" are falsy (JSON carries no NaN)
Truthy(v) ==
    CASE v.t = "undefined" -> FALSE
      [] v.t = "null" -> FALSE
      [] v.t = "number" -> v.n # 0
      [] v.t = "string" -> v.s # ""
      [] OTHER -> TRUE

\* ToNumber yields NaN for undefined and for a string that is no numeric
\* literal; every non-empty string of the model is such a string
IsNaN(v) == v.t = "undefined" \/ (v.t = "string" /\ v.s # "")
ToNumber(v) == IF v.t = "number" THEN v.n ELSE 0

\* v <= 0 as JavaScript evaluates it: false when ToNumber is NaN
JsLeqZero(v) == ~IsNaN(v) /\ ToNumber(v) <= 0

----------------------------------------------------------------------------
(* Payment records and the two stores *)

PaymentStatus == {"pending", "awaiting_payment", "processing", "completed",
                  "failed", "cancelled", "expired"}
TerminalStatus == {"completed", "failed", "cancelled", "expired"}

\* Map.prototype.get: the value stored under key, or nothing (the empty sequence)
MapHas(m, key) == \E i \in 1..Len(m) : m[i].id = key
MapIndex(m, key) == CHOOSE i \in 1..Len(m) : m[i].id = key
MapGet(m, key) == IF MapHas(m, key) THEN <<m[MapIndex(m, key)]>> ELSE <<>>

\* Map.prototype.set: an existing key keeps its place, a new key goes last
MapSet(m, key, value) ==
    IF MapHas(m, key) THEN [m EXCEPT ![MapIndex(m, key)] = value]
    ELSE Append(m, value)

MapKeys(m) == {m[i].id : i \in 1..Len(m)}

\* KVNamespace.put(key, value, {expirationTtl}): ttl in seconds, 0 for none
NoExpiry == -1
KvPut(k, key, value, at, ttlS) ==
    LET exp == IF ttlS > 0 THEN at + ttlS * 1000 ELSE NoExpiry
        entry == [value |-> value, exp |-> exp]
    IN  [x \in (DOMAIN k) \cup {key} |-> IF x = key THEN entry ELSE k[x]]

\* KVNamespace.get(key): null (the empty sequence) when absent or expired
KvLive(k, key, at) ==
    key \in DOMAIN k /\ (k[key].exp = NoExpiry \/ at < k[key].exp)
KvGet(k, key, at) == IF KvLive(k, key, at) THEN <<k[key].value>> ELSE <<>>

\* JSON.parse(JSON.stringify(p)) of a payment: properties holding undefined are
\* dropped and read back as undefined, numbers and strings come back as they were
JsonClone(p) == [f \in DOMAIN p |-> p[f]]

----------------------------------------------------------------------------
(* Responses *)

Response(kind, status, error, message, payments, challenge) ==
    [kind |-> kind, status |-> status, error |-> error, message |-> message,
     payments |-> payments, challenge |-> challenge]

NoResponse == Response("none", 0, "", "", <<>>, <<>>)

jsonResponse(kind, payments, status) == Response(kind, status, "", "", payments, <<>>)
jsonError(kind, error, message, status) == Response(kind, status, error, message, <<>>, <<>>)
handleError(kind, message) == jsonError(kind, "Internal Server Error", message, 500)

\* What a handler leaves behind: the two stores, the clock and the response
Outcome(store, k, at, r) == [store |-> store, kv |-> k, now |-> at, resp |-> r]

----------------------------------------------------------------------------
(* Request bodies *)

\* text is the body as sent, kept for the bodies that are no JSON text
JsonObject(amount, currency, description) ==
    [kind |-> "object", amount |-> amount, currency |-> currency,
     description |-> description, metadata |-> Undefined, text |-> ""]
\* the JSON text "null": request.json() resolves to null
JsonNull == [kind |-> "null", amount |-> Undefined, currency |-> Undefined,
             description |-> Undefined, metadata |-> Undefined, text |-> ""]
\* a body that is no JSON text: request.json() rejects
NotJson(text) == [kind |-> "invalid", amount |-> Undefined, currency |-> Undefined,
                  description |-> Undefined, metadata |-> Undefined, text |-> text]
\* no body, or an empty one: request.json() rejects at the end of the input
NoBody == [kind |-> "empty", amount |-> Undefined, currency |-> Undefined,
           description |-> Undefined, metadata |-> Undefined, text |-> ""]

\* bodies that are no JSON text: a word, an object cut short after its brace
\* or after a property, an array cut short after a comma
NotJsonTexts == {"abc", "{", "{\"amount\":1000", "[1,"}

\* the message of the SyntaxError request.json() rejects with: JSON.parse
\* names what it met where it stopped (for a text that starts with no JSON
\* value the message begins "Unexpected token")
JsonErrorMessage(body) ==
    CASE body.kind = "empty" -> "Unexpected end of JSON input"
      [] body.text = "{" -> "Expected property name or '}' in JSON at position 1"
      [] body.text = "{\"amount\":1000" ->
            "Expected ',' or '}' after property value in JSON at position 14"
      [] body.text = "[1," -> "Unexpected end of JSON input"
      [] OTHER -> "Unexpected token"

Amounts == {Undefined, Num(0), Num(-5), Num(1000), Str("abc")}
Currencies == {Undefined, Str(""), Str("USD")}
Descriptions == {Str("order")}
\* each amount with a good currency, each currency with a good amount, and the
\* bodies that are no JSON object
Bodies == {JsonObject(a, Str("USD"), d) : a \in Amounts, d \in Descriptions}
              \cup {JsonObject(Num(1000), c, d) : c \in Currencies, d \in Descriptions}
              \cup {JsonObject(Undefined, Undefined, Undefined), JsonNull, NoBody}
              \cup {NotJson(text) : text \in NotJsonTexts}

\* Math.random().toString(36).substring(2, 11): up to nine characters of 0-9a-z
RandomSuffixes == {<<"k","3">>, <<"z">>}

----------------------------------------------------------------------------
(* worker/index.ts: the handlers *)

\* generateId(): `pay_${Date.now()}_${random}`
generateId(at, rnd) == PayPrefix \o DecString(at) \o <<"_">> \o rnd

PaymentUrl(id) == [base |-> "https://payment.x402.dev/pay/", id |-> id]

\* the object literal of createPayment
NewPayment(id, body, createdAt, expiresAt) ==
    [id |-> id, status |-> "awaiting_payment", amount |-> body.amount,
     currency |-> body.currency, description |-> body.description,
     paymentUrl |-> PaymentUrl(id), metadata |-> body.metadata,
     createdAt |-> createdAt, updatedAt |-> createdAt, expiresAt |-> expiresAt]

\* createPayment(request, env): d1 and d2 are the milliseconds that pass between
\* the clock reads of generateId(), new Date() and Date.now(); rnd is what
\* Math.random() contributes to the id
createPayment(body, d1, d2, rnd) ==
    LET t1 == now
        t2 == t1 + d1
        t3 == t2 + d2
        id == generateId(t1, rnd)
        payment == NewPayment(id, body, t2, t3 + TTL_MS)
        store == MapSet(paymentsStore, id, payment)
    IN  IF body.kind \in {"invalid", "empty"}
        THEN Outcome(paymentsStore, kv, now,
                     handleError("createPayment", JsonErrorMessage(body)))
        ELSE IF body.kind = "null"
        THEN Outcome(paymentsStore, kv, now,
                     handleError("createPayment", "Cannot read properties of null"))
        ELSE IF ~Truthy(body.amount) \/ JsLeqZero(body.amount)
        THEN Outcome(paymentsStore, kv, now,
                     jsonError("createPayment", "Invalid Request",
                               "Amount must be greater than 0", 400))
        ELSE IF ~Truthy(body.currency)
        THEN Outcome(paymentsStore, kv, now,
                     jsonError("createPayment", "Invalid Request",
                               "Currency is required", 400))
        ELSE Outcome(store,
                     IF hasKV THEN KvPut(kv, id, JsonClone(payment), t3, KV_TTL_S) ELSE kv,
                     t3,
                     jsonResponse("createPayment", <<JsonClone(payment)>>, 201))

\* a getPayment that keeps what it answers in the Map
getPaymentAnswerCaching(paymentId, payment) ==
    IF payment = <<>>
    THEN Outcome(paymentsStore, kv, now,
                 jsonError("getPayment", "Not Found", "Payment not found", 404))
    ELSE Outcome(MapSet(paymentsStore, paymentId, payment[1]), kv, now,
                 jsonResponse("getPayment", <<JsonClone(payment[1])>>, 200))
\* getPayment lines 198-206: the answer, payment being what the Map held or
\* else what the KV read gave (<<>> for nothing)
getPaymentAnswer(paymentId, payment) ==
    IF payment = <<>>
    THEN Outcome(paymentsStore, kv, now,
                 jsonError("getPayment", "Not Found", "Payment not found", 404))
    ELSE Outcome(paymentsStore, kv, now,
                 jsonResponse("getPayment", <<JsonClone(payment[1])>>, 200))

\* getPayment lines 191-192: the Map has no entry and a KV namespace is bound,
\* so the handler awaits PAYMENTS_KV.get
GetSuspends(paymentId) == hasKV /\ ~MapHas(paymentsStore, paymentId)

\* getPayment(paymentId, env), its KV read answered at once
getPayment(paymentId) ==
    getPaymentAnswer(paymentId,
                     IF GetSuspends(paymentId) THEN KvGet(kv, paymentId, now)
                                               ELSE MapGet(paymentsStore, paymentId))

\* cancelPayment that assigns the status and leaves updatedAt as it was
CancelledStatusOnly(payment, at) == [payment EXCEPT !.status = "cancelled"]
\* cancelPayment lines 237-238: payment.status = 'cancelled';
\* payment.updatedAt = new Date().toISOString(), with no await in between
Cancelled(payment, at) == [payment EXCEPT !.status = "cancelled", !.updatedAt = at]

\* a guard that refuses every terminal status
CancelRefusedTerminal(status) == status \in TerminalStatus
\* cancelPayment without its test of line 229
CancelGuardDropped(status) == FALSE
\* cancelPayment, line 229: the one status cancel refuses
CancelRefused(status) == status = "completed"

\* a cancel that also restarts the payment's expiry window
cancelPaymentRenewing(paymentId) ==
    LET found == MapGet(paymentsStore, paymentId)
        payment == [found[1] EXCEPT !.status = "cancelled", !.updatedAt = now,
                                    !.expiresAt = now + TTL_MS]
    IN  IF found = <<>>
        THEN Outcome(paymentsStore, kv, now,
                     jsonError("cancelPayment", "Not Found", "Payment not found", 404))
        ELSE IF CancelRefused(found[1].status)
        THEN Outcome(paymentsStore, kv, now,
                     jsonError("cancelPayment", "Invalid Operation",
                               "Cannot cancel completed payment", 400))
        ELSE Outcome(MapSet(paymentsStore, paymentId, payment),
                     IF hasKV THEN KvPut(kv, paymentId, JsonClone(payment), now, 0) ELSE kv,
                     now,
                     jsonResponse("cancelPayment", <<JsonClone(payment)>>, 200))
\* a cancel that records the id it does not find as a cancelled payment
cancelPaymentUpsert(paymentId) ==
    LET found == MapGet(paymentsStore, paymentId)
        payment == [found[1] EXCEPT !.status = "cancelled", !.updatedAt = now]
        blank == [NewPayment(paymentId, JsonObject(Num(1000), Str("USD"), Str("order")),
                             now, now + TTL_MS)
                     EXCEPT !.status = "cancelled"]
    IN  IF found = <<>>
        THEN Outcome(MapSet(paymentsStore, paymentId, blank), kv, now,
                     jsonError("cancelPayment", "Not Found", "Payment not found", 404))
        ELSE IF CancelRefused(found[1].status)
        THEN Outcome(paymentsStore, kv, now,
                     jsonError("cancelPayment", "Invalid Operation",
                               "Cannot cancel completed payment", 400))
        ELSE Outcome(MapSet(paymentsStore, paymentId, payment),
                     IF hasKV THEN KvPut(kv, paymentId, JsonClone(payment), now, 0) ELSE kv,
                     now,
                     jsonResponse("cancelPayment", <<JsonClone(payment)>>, 200))
\* cancelPayment(paymentId, env)
cancelPayment(paymentId) ==
    LET found == MapGet(paymentsStore, paymentId)
        payment == Cancelled(found[1], now)
    IN  IF found = <<>>
        THEN Outcome(paymentsStore, kv, now,
                     jsonError("cancelPayment", "Not Found", "Payment not found", 404))
        ELSE IF CancelRefused(found[1].status)
        THEN Outcome(paymentsStore, kv, now,
                     jsonError("cancelPayment", "Invalid Operation",
                               "Cannot cancel completed payment", 400))
        ELSE Outcome(MapSet(paymentsStore, paymentId, payment),
                     IF hasKV THEN KvPut(kv, paymentId, JsonClone(payment), now, 0) ELSE kv,
                     now,
                     jsonResponse("cancelPayment", <<JsonClone(payment)>>, 200))

----------------------------------------------------------------------------
(* listPayments *)

\* parseInt of a decimal string: NaN unless it starts (after a sign) with a digit;
\* the digits that follow are read up to the first other character
DigitValue(c) == CHOOSE i \in 0..9 : DigitChars[i + 1] = c
RECURSIVE ParseDigits(_, _)
ParseDigits(s, acc) ==
    IF s = <<>> \/ Head(s) \notin Digit THEN acc
    ELSE ParseDigits(Tail(s), acc * 10 + DigitValue(Head(s)))
parseInt(s) ==
    LET neg == s # <<>> /\ Head(s) = "-"
        body == IF s # <<>> /\ Head(s) \in {"-", "+"} THEN Tail(s) ELSE s
    IN  IF body = <<>> \/ Head(body) \notin Digit
        THEN [nan |-> TRUE, n |-> 0]
        ELSE [nan |-> FALSE, n |-> IF neg THEN -ParseDigits(body, 0) ELSE ParseDigits(body, 0)]

\* x || dflt on a string read from the query: the empty string and null are falsy
OrDefault(s, dflt) == IF s = <<>> THEN dflt ELSE s

\* Array.prototype.slice(start, end): NaN counts as 0, a negative index counts
\* from the end, both are clamped to the array
RelIndex(k, len) ==
    IF k.nan THEN 0
    ELSE IF k.n < 0 THEN (IF len + k.n < 0 THEN 0 ELSE len + k.n)
    ELSE IF k.n > len THEN len ELSE k.n
Slice(a, start, end) ==
    LET from == RelIndex(start, Len(a))
        to == RelIndex(end, Len(a))
    IN  IF to <= from THEN <<>> ELSE SubSeq(a, from + 1, to)

\* start + limit in JavaScript numbers: NaN when either is NaN
JsAdd(a, b) == [nan |-> a.nan \/ b.nan, n |-> IF a.nan \/ b.nan THEN 0 ELSE a.n + b.n]

Filter(a, status) == SelectSeq(a, LAMBDA p : p.status = status)

\* Array.prototype.sort with (a, b) => b.createdAt - a.createdAt: descending by
\* createdAt, and stable, so equal createdAt keep the Map's insertion order
RECURSIVE InsertDesc(_, _)
InsertDesc(sorted, p) ==
    IF sorted = <<>> THEN <<p>>
    ELSE IF Head(sorted).createdAt >= p.createdAt
         THEN <<Head(sorted)>> \o InsertDesc(Tail(sorted), p)
         ELSE <<p>> \o sorted
\* a listing that leaves the records in the Map's insertion order
SortAsInserted(a) == a
RECURSIVE SortNewestFirst(_)
SortNewestFirst(a) ==
    IF a = <<>> THEN <<>>
    ELSE InsertDesc(SortNewestFirst(SubSeq(a, 1, Len(a) - 1)), a[Len(a)])

Query(limit, offset, status) == [limit |-> limit, offset |-> offset, status |-> status]
NoQuery == Query(<<>>, <<>>, "")

\* listPayments(url, env)
listPayments(query) ==
    LET limit == parseInt(OrDefault(query.limit, DecString(DEFAULT_LIMIT)))
        offset == parseInt(OrDefault(query.offset, <<"0">>))
        all == paymentsStore
        filtered == IF query.status # "" THEN Filter(all, query.status) ELSE all
        sorted == SortNewestFirst(filtered)
        page == Slice(sorted, offset, JsAdd(offset, limit))
    IN  Outcome(paymentsStore, kv, now,
                jsonResponse("listPayments", [i \in 1..Len(page) |-> JsonClone(page[i])], 200))

----------------------------------------------------------------------------
(* The protected resource and the router *)

\* handleProtectedResource(request): token is the X-Payment-Token header, ""
\* when the header is absent (headers.get gives null) or empty; both are falsy
handleProtectedResource(token, rnd) ==
    IF token # ""
    THEN Outcome(paymentsStore, kv, now, Response("protected", 200, "", "Access granted", <<>>, <<>>))
    ELSE Outcome(paymentsStore, kv, now,
                 Response("protected", 402, "", "Payment Required", <<>>, generateId(now, rnd)))

Request(method, path, body, query, token) ==
    [method |-> method, path |-> path, body |-> body, query |-> query, token |-> token]

\* [a-zA-Z0-9-]
IdClass(c) == c \in Lower \cup Upper \cup Digit \cup {"-"}
\* [a-zA-Z0-9-]+ over a whole path segment
IdToken(seg) == Len(seg) >= 1 /\ \A i \in 1..Len(seg) : IdClass(seg[i])

\* path.match(/\/api\/payments\/[a-zA-Z0-9-]+$/): the pattern is not anchored at
\* the start, so it asks for the path to end in /api/payments/<token>
MatchesGet(path) ==
    LET n == Len(path)
    IN  n >= 3 /\ path[n - 2] = SegApi /\ path[n - 1] = SegPayments /\ IdToken(path[n])
\* path.match(/\/api\/payments\/[a-zA-Z0-9-]+\/cancel$/)
MatchesCancel(path) ==
    LET n == Len(path)
    IN  n >= 4 /\ path[n - 3] = SegApi /\ path[n - 2] = SegPayments
               /\ IdToken(path[n - 1]) /\ path[n] = SegCancel

\* url.pathname.startsWith('/api')
StartsWithApi(path) ==
    Len(path) >= 1 /\ Len(path[1]) >= 3 /\ SubSeq(path[1], 1, 3) = SegApi

\* handleAPI(request, env, ctx): path is the pathname split at "/", so that
\* path.split('/')[3] is the third segment and path.split('/').pop() the last
handleAPI(request, d1, d2, rnd) ==
    LET path == request.path
    IN  IF path = <<SegApi, SegHealth>>
        THEN Outcome(paymentsStore, kv, now, Response("health", 200, "", "healthy", <<>>, <<>>))
        ELSE IF path = <<SegApi, SegPayments>> /\ request.method = "POST"
        THEN createPayment(request.body, d1, d2, rnd)
        ELSE IF MatchesGet(path) /\ request.method = "GET"
        THEN getPayment(path[Len(path)])
        ELSE IF MatchesCancel(path) /\ request.method = "POST"
        THEN cancelPayment(path[3])
        ELSE IF path = <<SegApi, SegPayments>> /\ request.method = "GET"
        THEN listPayments(request.query)
        ELSE IF path = <<SegApi, SegWebhooks, SegPayment>> /\ request.method = "POST"
        THEN IF request.body.kind \in {"invalid", "empty"}
             THEN Outcome(paymentsStore, kv, now,
                          handleError("webhook", JsonErrorMessage(request.body)))
             ELSE Outcome(paymentsStore, kv, now, Response("webhook", 200, "", "received", <<>>, <<>>))
        ELSE Outcome(paymentsStore, kv, now,
                     jsonError("notFound", "Not Found", "Endpoint not found", 404))

\* export default { fetch(request, env, ctx) }
fetch(request, d1, d2, rnd) ==
    IF request.method = "OPTIONS"
    THEN Outcome(paymentsStore, kv, now, Response("preflight", 200, "", "", <<>>, <<>>))
    ELSE IF StartsWithApi(request.path)
    THEN handleAPI(request, d1, d2, rnd)
    ELSE IF request.path = <<SegProtected>>
    THEN handleProtectedResource(request.token, rnd)
    ELSE Outcome(paymentsStore, kv, now,
                 Response("default", 200, "", "x402.dev Payment Rails SDK", <<>>, <<>>))

----------------------------------------------------------------------------
(* X402Client: constructor and makeRequest (client.ts) *)

\* a || b on an optional numeric option
OrNumber(v, dflt) == IF Truthy(v) THEN v.n ELSE dflt

\* constructor, line 25: this.retries = options?.retries || 3
ConstructRetries(opt) == OrNumber(opt, DEFAULT_RETRIES)
\* constructor, line 24: this.timeout = options?.timeout || 30000
ConstructTimeout(opt) == OrNumber(opt, DEFAULT_TIMEOUT)

\* Math.pow(2, attempt)
RECURSIVE Pow2(_)
Pow2(k) == IF k = 0 THEN 1 ELSE 2 * Pow2(k - 1)
\* a backoff that grows by one second per attempt instead of doubling
BackoffLinear(k) == (k + 1) * 1000
\* line 198: Math.pow(2, attempt) * 1000
Backoff(k) == Pow2(k) * 1000

\* What one fetch of makeRequest can come to: a 2xx response, a response with
\* an error status, a rejected fetch (network), an abort by the timeout timer.
\* The body of a response is JSON as the worker writes it ("json": an object
\* without statusCode), JSON with a statusCode field ("apierror"), not JSON
\* ("text", as an empty 204 or a gateway's HTML page), or has not arrived,
\* being on its way or never completing ("stall")
FetchOutcomes == {[kind |-> "ok", status |-> 200, body |-> "json"],
                  [kind |-> "ok", status |-> 204, body |-> "text"],
                  [kind |-> "ok", status |-> 200, body |-> "stall"],
                  [kind |-> "http", status |-> 400, body |-> "json"],
                  [kind |-> "http", status |-> 404, body |-> "json"],
                  [kind |-> "http", status |-> 500, body |-> "apierror"],
                  [kind |-> "http", status |-> 502, body |-> "text"],
                  [kind |-> "network", status |-> 0, body |-> "none"],
                  [kind |-> "timeout", status |-> 0, body |-> "none"]}
NoError == [kind |-> "none", status |-> 0, body |-> "none"]

\* lines 183-192: the attempt returns when response.ok and response.json()
\* resolves
Returns(outcome) == outcome.kind = "ok" /\ outcome.body = "json"

\* lines 181-192: the await of a body that has not arrived has not settled
Stalls(outcome) == outcome.kind \in {"ok", "http"} /\ outcome.body = "stall"

\* lines 173-182: the timer set before the fetch is cleared once the fetch has
\* resolved with a response, has fired when it aborted the fetch, and is left
\* armed when the fetch rejected for another reason
TimerAfter(outcome) ==
    CASE outcome.kind \in {"ok", "http"} -> "cleared"
      [] outcome.kind = "timeout" -> "fired"
      [] OTHER -> "armed"

\* lines 183-195: the value the catch of makeRequest receives. An error status
\* throws the parsed body, or the fallback { error, message, statusCode } when
\* the body is not JSON; a 2xx whose body is not JSON throws the SyntaxError of
\* response.json(); fetch rejects with a TypeError, or an AbortError on abort
CaughtError(outcome) ==
    CASE outcome.kind = "http" /\ outcome.body = "json" ->
            [isError |-> FALSE, name |-> "Object", statusCode |-> Undefined]
      [] outcome.kind = "http" ->
            [isError |-> FALSE, name |-> "Object", statusCode |-> Num(outcome.status)]
      [] outcome.kind = "ok" ->
            [isError |-> TRUE, name |-> "SyntaxError", statusCode |-> Undefined]
      [] outcome.kind = "timeout" ->
            [isError |-> TRUE, name |-> "AbortError", statusCode |-> Undefined]
      [] OTHER ->
            [isError |-> TRUE, name |-> "TypeError", statusCode |-> Undefined]

\* client.ts handleError, lines 230-238: what the public methods throw for a
\* caught value: "API Error (<statusCode>): ..." when it has a truthy
\* statusCode, the value itself when it is an Error, else new Error(String(value))
clientHandleError(e) ==
    IF Truthy(e.statusCode)
    THEN [name |-> "Error", message |-> "API Error", status |-> e.statusCode.n]
    ELSE IF e.isError
         THEN [name |-> e.name, message |-> "", status |-> 0]
         ELSE [name |-> "Error", message |-> "[object Object]", status |-> 0]

RetryOptions == {Undefined} \cup {Num(n) : n \in 0..MaxRetriesOpt}

----------------------------------------------------------------------------
(* Initial states *)

NoCall == [op |-> "none", id |-> <<>>, body |-> NoBody, query |-> NoQuery,
           token |-> "", method |-> "", path |-> <<>>]
Call(op, id, body, query) ==
    [op |-> op, id |-> id, body |-> body, query |-> query,
     token |-> "", method |-> "", path |-> <<>>]
HttpCall(request) ==
    [op |-> "fetch", id |-> <<>>, body |-> request.body, query |-> request.query,
     token |-> request.token, method |-> request.method, path |-> request.path]

\* PaymentButton.tsx declares the name PaymentButton twice: the component of
\* lines 23-187, which initiates a payment and polls its status, and the
\* component of lines 202-249, which waits a second and reports success
Polling == "polling"
Placeholder == "placeholder"

\* PaymentButton.tsx:36-38: the component as first rendered, nothing polling
Rendered ==
    /\ clicks = 0
    /\ initiating = 0
    /\ pollInterval = <<>>
    /\ pollAttempts = <<>>
    /\ pollRequests = <<>>
    /\ pollInflight = <<>>
    /\ pollLast = "none"
    /\ pollRun = 0
    /\ loading = FALSE
    /\ errorText = ""
    /\ reports = <<>>
    /\ mounted = TRUE

PollIdle == Rendered /\ component = Polling

\* the PaymentVerification of a verifyPayment call, or that the call threw
Verification(kind, valid, paymentId, status, verifiedAt) ==
    [kind |-> kind, valid |-> valid, paymentId |-> paymentId, status |-> status,
     verifiedAt |-> verifiedAt]
NoVerification == Verification("none", FALSE, <<>>, "", 0)

\* config.webhookSecret: left out, or a string as its UTF-16 code units
NoSecret == [given |-> FALSE, units |-> <<>>]
Secret(units) == [given |-> TRUE, units |-> units]

\* listPayments(params): params and each of its fields may be left out
ListParams(limit, offset, status) == [limit |-> limit, offset |-> offset, status |-> status]
NoParams == ListParams(Undefined, Undefined, Undefined)

\* no handler is suspended, no list call was made
ConcIdle ==
    /\ pending = <<>>
    /\ history = {}
    /\ listParams = NoParams
    /\ wire = <<>>

\* a client constructed without a webhook secret, no webhook received
VerifyIdle ==
    /\ webhookSecret = NoSecret
    /\ vPayload = <<>>
    /\ vSignature = <<>>
    /\ vSigned = <<>>
    /\ vResult = "none"
    /\ verification = NoVerification

ClientIdle ==
    /\ timer = "none"
    /\ optRetries = Undefined
    /\ retries = ConstructRetries(Undefined)
    /\ timeout = ConstructTimeout(Undefined)
    /\ pc = "idle"
    /\ attempt = 0
    /\ lastError = NoError
    /\ attempts = <<>>
    /\ sleeps = <<>>
    /\ result = NoError

\* worker/index.ts:14: the isolate starts with an empty Map; the KV namespace,
\* when bound, holds nothing of this worker yet
ServerInit ==
    /\ paymentsStore = <<>>
    /\ kv = <<>>
    /\ hasKV \in BOOLEAN
    /\ now = 0
    /\ call = NoCall
    /\ resp = NoResponse

Init == ServerInit /\ ClientIdle /\ PollIdle /\ VerifyIdle /\ ConcIdle

----------------------------------------------------------------------------
(* Server steps *)

Apply(out) ==
    /\ paymentsStore' = out.store
    /\ kv' = out.kv
    /\ now' = out.now
    /\ resp' = out.resp
    /\ UNCHANGED hasKV
    /\ UNCHANGED <<clientVars, pollVars, verifyVars, concVars, listParams, wire>>

\* createPayment line 170 / cancelPayment line 242: the handler has written
\* the Map and awaits PAYMENTS_KV.put; other requests run until the put lands
Suspends(out) ==
    /\ hasKV
    /\ out.resp.kind \in {"createPayment", "cancelPayment"}
    /\ out.resp.status \in {200, 201}

\* a suspended handler: the text JSON.stringify(payment) it handed to put, the
\* invocation, and its payment object: the one the Map holds under the id
\* (inMap), or, once a later creation has set another object under that id,
\* the object as it was left (obj)
Suspended(op, payment, c) ==
    [op |-> op, id |-> payment.id, value |-> payment, inMap |-> TRUE,
     obj |-> payment, call |-> c]

\* paymentsStore.set(id, other object): the handlers suspended on the object
\* that was under the id keep it, as it is by now
RECURSIVE Orphaned(_, _)
Orphaned(suspended, id) ==
    IF suspended = <<>> THEN <<>>
    ELSE LET h == Head(suspended) IN
         <<IF h.id = id /\ h.inMap
           THEN [h EXCEPT !.inMap = FALSE, !.obj = MapGet(paymentsStore, id)[1]]
           ELSE h>> \o Orphaned(Tail(suspended), id)

\* a handler runs up to its response, or up to its await of PAYMENTS_KV.put
Begin(out, c, limit) ==
    /\ paymentsStore' = out.store
    /\ now' = out.now
    /\ call' = c
    /\ IF Suspends(out)
       THEN LET payment == out.resp.payments[1]
                creates == out.resp.kind = "createPayment"
            IN  /\ Len(pending) < limit
                /\ pending' = Append(IF creates THEN Orphaned(pending, payment.id)
                                                 ELSE pending,
                                      Suspended(IF creates THEN "create" ELSE "cancel",
                                                payment, c))
                /\ resp' = NoResponse
                /\ UNCHANGED kv
       ELSE /\ kv' = out.kv
            /\ resp' = out.resp
            /\ UNCHANGED pending
    /\ UNCHANGED <<hasKV, listParams, wire>>
    /\ UNCHANGED <<clientVars, pollVars, verifyVars>>

\* the put of the suspended handler i lands, and the handler answers with its
\* payment object
Resumed(i) ==
    LET h == pending[i]
        payment == IF h.inMap THEN MapGet(paymentsStore, h.id)[1] ELSE h.obj
    IN  /\ kv' = KvPut(kv, h.id, h.value, now,
                       IF h.op = "create" THEN KV_TTL_S ELSE 0)
        /\ resp' = jsonResponse(IF h.op = "create" THEN "createPayment"
                                                   ELSE "cancelPayment",
                                <<JsonClone(payment)>>,
                                IF h.op = "create" THEN 201 ELSE 200)
        /\ call' = h.call
        /\ pending' = SubSeq(pending, 1, i - 1) \o SubSeq(pending, i + 1, Len(pending))
        /\ UNCHANGED <<paymentsStore, hasKV, now, history, listParams, wire>>
        /\ UNCHANGED <<clientVars, pollVars, verifyVars>>

\* getPayment lines 188-192: the handler runs up to its response, or up to its
\* await of PAYMENTS_KV.get when the Map has no entry; out is the handler's
\* outcome were the read answered at once
GetBegin(paymentId, out, c, limit) ==
    /\ call' = c
    /\ IF out.resp.kind = "getPayment" /\ GetSuspends(paymentId)
       THEN /\ Len(pending) < limit
            /\ pending' = Append(pending,
                                 [op |-> "get", id |-> paymentId, value |-> <<>>,
                                  inMap |-> FALSE, obj |-> <<>>, call |-> c])
            /\ resp' = NoResponse
            /\ UNCHANGED <<paymentsStore, kv, now>>
       ELSE /\ paymentsStore' = out.store
            /\ kv' = out.kv
            /\ now' = out.now
            /\ resp' = out.resp
            /\ UNCHANGED pending
    /\ UNCHANGED <<hasKV, history, listParams, wire>>
    /\ UNCHANGED <<clientVars, pollVars, verifyVars>>

\* getPayment lines 192-206: the KV read of a suspended get is answered with
\* what the namespace holds by now, and the handler answers without looking
\* at the Map again
GetFinish ==
    \E i \in 1..Len(pending) :
        LET h == pending[i]
            out == getPaymentAnswer(h.id, KvGet(kv, h.id, now))
        IN  /\ h.op = "get"
            /\ paymentsStore' = out.store
            /\ kv' = out.kv
            /\ resp' = out.resp
            /\ call' = h.call
            /\ pending' = SubSeq(pending, 1, i - 1) \o SubSeq(pending, i + 1, Len(pending))
            /\ UNCHANGED <<hasKV, now, history, listParams, wire>>
            /\ UNCHANGED <<clientVars, pollVars, verifyVars>>

\* createPayment lines 170-175: the put of a suspended creation lands with
\* its expirationTtl and the handler answers 201
CreateFinish == \E i \in 1..Len(pending) : pending[i].op = "create" /\ Resumed(i)

\* cancelPayment lines 241-244: the put of a suspended cancel lands and the
\* handler answers 200
CancelFinish == \E i \in 1..Len(pending) : pending[i].op = "cancel" /\ Resumed(i)

\* milliseconds the clock has taken within the current hour
TicksTaken == now % TTL_MS

\* The clock moves between two requests: by a millisecond, or by an hour
Tick ==
    /\ \/ TicksTaken < MaxTicks /\ now' = now + 1
       \/ now \div TTL_MS < MaxHours /\ now' = now + TTL_MS
    /\ call' = NoCall
    /\ resp' = NoResponse
    /\ UNCHANGED <<paymentsStore, kv, hasKV>>
    /\ UNCHANGED <<clientVars, pollVars, verifyVars, concVars, listParams, wire>>

\* payment ids nobody created
ProbeIds == {<<"a","b","c">>, <<"p","a","y","-","1">>}
KnownIds == MapKeys(paymentsStore) \cup DOMAIN kv \cup ProbeIds

NumParams == {<<>>, <<"1">>}
Queries == {Query(l, <<>>, st) : l \in NumParams, st \in {"", "cancelled"}}
              \cup {Query(l, <<"1">>, "") : l \in NumParams}

\* - the handlers, invoked with their arguments ---------------------------

OpCreate ==
    /\ Len(paymentsStore) < MaxPayments
    /\ \E body \in Bodies, d1 \in {0, 1}, d2 \in {0, 1}, rnd \in RandomSuffixes :
          /\ TicksTaken + d1 + d2 <= MaxTicks
          /\ Begin(createPayment(body, d1, d2, rnd), Call("create", <<>>, body, NoQuery),
                   MaxSuspended)
          /\ UNCHANGED history

OpGet ==
    \E id \in KnownIds :
        GetBegin(id, getPayment(id), Call("get", id, NoBody, NoQuery), MaxSuspended)

OpCancel ==
    \E id \in KnownIds :
        /\ Begin(cancelPayment(id), Call("cancel", id, NoBody, NoQuery), MaxSuspended)
        /\ UNCHANGED history

OpList ==
    \E q \in Queries :
        /\ Apply(listPayments(q))
        /\ call' = Call("list", <<>>, NoBody, q)

OpNext == OpCreate \/ CreateFinish \/ OpGet \/ GetFinish \/ OpCancel \/ CancelFinish
             \/ OpList \/ Tick

\* The handlers from the isolate's start
OpSpec == Init /\ [][OpNext]_vars

\* - the handlers on a store that already holds payments ------------------

\* A payment as createPayment stored it at instant 0 and as whatever moves
\* payments along their lifecycle has left it since: PaymentResponse.status is
\* any PaymentStatus (types.ts:38-45)
SeedPayment(rnd, status) ==
    [NewPayment(generateId(0, rnd), JsonObject(Num(1000), Str("USD"), Str("order")),
                0, TTL_MS)
        EXCEPT !.status = status]

SeededStores ==
    {<<SeedPayment(<<"s","1">>, st)>> : st \in PaymentStatus}
       \cup {<<SeedPayment(<<"s","1">>, st1), SeedPayment(<<"s","2">>, st2)>> :
                st1 \in PaymentStatus, st2 \in {"awaiting_payment", "completed"}}

SeededInit ==
    /\ paymentsStore \in SeededStores
    /\ kv = <<>>
    /\ hasKV \in BOOLEAN
    /\ now = 0
    /\ call = NoCall
    /\ resp = NoResponse
    /\ ClientIdle
    /\ PollIdle
    /\ VerifyIdle
    /\ ConcIdle

\* The handlers as functions of the store they find
SeededSpec == SeededInit /\ [][OpNext]_vars

\* - the worker's fetch entry point ----------------------------------------

Tokens == {"", "tok_1"}

FetchCreate ==
    /\ Len(paymentsStore) < MaxPayments
    /\ \E body \in Bodies, d1 \in {0, 1}, d2 \in {0, 1}, rnd \in RandomSuffixes :
          LET request == Request("POST", <<SegApi, SegPayments>>, body, NoQuery, "")
          IN  /\ TicksTaken + d1 + d2 <= MaxTicks
              /\ Begin(fetch(request, d1, d2, rnd), HttpCall(request), MaxSuspended)
              /\ UNCHANGED history

FetchGet ==
    \E id \in KnownIds :
        LET request == Request("GET", <<SegApi, SegPayments, id>>, NoBody, NoQuery, "")
        IN  GetBegin(id, fetch(request, 0, 0, <<>>), HttpCall(request), MaxSuspended)

FetchCancel ==
    \E id \in KnownIds :
        LET request == Request("POST", <<SegApi, SegPayments, id, SegCancel>>,
                               NoBody, NoQuery, "")
        IN  /\ Begin(fetch(request, 0, 0, <<>>), HttpCall(request), MaxSuspended)
            /\ UNCHANGED history

FetchList ==
    \E q \in Queries :
        LET request == Request("GET", <<SegApi, SegPayments>>, NoBody, q, "")
        IN  /\ Apply(fetch(request, 0, 0, <<>>))
            /\ call' = HttpCall(request)

FetchProtected ==
    \E token \in Tokens, rnd \in RandomSuffixes :
        LET request == Request("GET", <<SegProtected>>, NoBody, NoQuery, token)
        IN  /\ Apply(fetch(request, 0, 0, rnd))
            /\ call' = HttpCall(request)

OtherRequests ==
    {Request("GET", <<SegApi, SegHealth>>, NoBody, NoQuery, ""),
     Request("OPTIONS", <<SegApi, SegPayments>>, NoBody, NoQuery, ""),
     Request("POST", <<SegApi, SegWebhooks, SegPayment>>, JsonNull, NoQuery, ""),
     Request("POST", <<SegApi, SegWebhooks, SegPayment>>, NoBody, NoQuery, ""),
     Request("DELETE", <<SegApi, SegPayments>>, NoBody, NoQuery, ""),
     Request("GET", <<>>, NoBody, NoQuery, "")}

FetchOther ==
    \E request \in OtherRequests :
        /\ Apply(fetch(request, 0, 0, <<>>))
        /\ call' = HttpCall(request)

Next == FetchCreate \/ CreateFinish \/ FetchGet \/ GetFinish \/ FetchCancel
           \/ FetchList \/ FetchProtected \/ FetchOther \/ Tick

\* The worker as its clients reach it
Spec == Init /\ [][Next]_vars

----------------------------------------------------------------------------
(* X402Client.makeRequest, one step per await *)

ServerIdle ==
    /\ paymentsStore = <<>>
    /\ kv = <<>>
    /\ hasKV = FALSE
    /\ now = 0
    /\ call = NoCall
    /\ resp = NoResponse

\* new X402Client(config, options) with options.retries given or left out
ClientInit ==
    /\ ServerIdle
    /\ PollIdle
    /\ VerifyIdle
    /\ ConcIdle
    /\ timer = "none"
    /\ optRetries \in RetryOptions
    /\ retries = ConstructRetries(optRetries)
    /\ timeout = ConstructTimeout(Undefined)
    /\ pc = "idle"
    /\ attempt = 0
    /\ lastError = NoError
    /\ attempts = <<>>
    /\ sleeps = <<>>
    /\ result = NoError

\* makeRequest is entered: lastError = null, attempt = 0
Enter ==
    /\ pc \in {"idle", "returned", "thrown"}
    /\ pc' = "fetch"
    /\ attempt' = 0
    /\ lastError' = NoError
    /\ attempts' = <<>>
    /\ sleeps' = <<>>
    /\ result' = NoError
    /\ timer' = "armed"
    /\ UNCHANGED <<retries, timeout, optRetries>>

MakeRequest ==
    /\ Enter
    /\ UNCHANGED <<serverVars, pollVars, verifyVars, concVars, listParams, wire>>

\* lines 194-200: the catch of the loop body: the value is kept in lastError
\* and, while attempt < this.retries, followed by a sleep
Caught(outcome) ==
    /\ lastError' = outcome
    /\ IF attempt < retries
       THEN /\ pc' = "sleep"
            /\ sleeps' = Append(sleeps, Backoff(attempt))
            /\ UNCHANGED <<attempt, result>>
       ELSE \* attempt++ ends the loop; line 203 throws lastError
            /\ pc' = "thrown"
            /\ attempt' = attempt + 1
            /\ result' = outcome
            /\ UNCHANGED sleeps

\* the status line and headers of a response, its body not read yet
Headers(outcome) == [outcome EXCEPT !.body = "stall"]

\* lines 175-182: the await of fetch settles. With the status line and
\* headers of a response the timer is cleared and makeRequest awaits the body
\* (response.json(), line 185 or 193); a rejected or aborted fetch is caught
Settle(outcome) ==
    /\ timer' = TimerAfter(outcome)
    /\ IF outcome.kind \in {"ok", "http"}
       THEN /\ attempts' = Append(attempts, Headers(outcome))
            /\ pc' = "stalled"
            /\ UNCHANGED <<attempt, lastError, sleeps, result>>
       ELSE /\ attempts' = Append(attempts, outcome)
            /\ Caught(outcome)
    /\ UNCHANGED <<retries, timeout, optRetries>>

\* lines 183-193: the await of response.json() settles, the body having
\* arrived: a 2xx response with a JSON body is returned, anything else is
\* caught; a body that never completes leaves the call where it is
BodyRead(outcome) ==
    /\ pc = "stalled"
    /\ ~Stalls(outcome)
    /\ Headers(outcome) = attempts[Len(attempts)]
    /\ attempts' = [attempts EXCEPT ![Len(attempts)] = outcome]
    /\ IF Returns(outcome)
       THEN /\ pc' = "returned"
            /\ result' = outcome
            /\ UNCHANGED <<attempt, lastError, sleeps>>
       ELSE Caught(outcome)
    /\ UNCHANGED <<retries, timeout, optRetries, timer>>

\* the fetch of a request whose fate at the service is left open settles
Attempt ==
    /\ pc = "fetch"
    /\ \E outcome \in FetchOutcomes : Settle(outcome)
    /\ UNCHANGED <<serverVars, pollVars, verifyVars, concVars, listParams, wire>>

\* the body of the response arrives
ReadBody ==
    /\ \E outcome \in FetchOutcomes : BodyRead(outcome)
    /\ UNCHANGED <<serverVars, pollVars, verifyVars, concVars, listParams, wire>>

\* the sleep of line 198 is over: attempt++ and the loop test passes
Resume ==
    /\ pc = "sleep"
    /\ pc' = "fetch"
    /\ attempt' = attempt + 1
    /\ timer' = "armed"
    /\ UNCHANGED <<retries, timeout, optRetries, lastError, attempts, sleeps, result>>

Wake ==
    /\ Resume
    /\ UNCHANGED <<serverVars, pollVars, verifyVars, concVars, listParams, wire>>

ClientNext == MakeRequest \/ Attempt \/ ReadBody \/ Wake

\* One client and the calls it makes, whatever the network answers
ClientSpec == ClientInit /\ [][ClientNext]_vars

----------------------------------------------------------------------------
(* X402Client.initiatePayment against the worker *)

\* the request of initiatePayment (client.ts lines 33-37): POST /api/payments
\* with a valid PaymentRequest
InitiateRequest ==
    Request("POST", <<SegApi, SegPayments>>,
            JsonObject(Num(1000), Str("USD"), Str("order")), NoQuery, "")

\* a request fetch() has sent (client.ts line 175): the attempt of makeRequest
\* that sent it, the instant, the worker's Response once the worker has
\* handled it, the answer whose status line and headers the fetch resolved
\* with, and the instant at which the attempt was over
Sent(n, request, at) ==
    [attempt |-> n, request |-> request, at |-> at, handled |-> FALSE,
     resp |-> NoResponse,
     answer |-> [seen |-> NoError, resp |-> NoResponse], endedAt |-> at]

\* a method of a new client enters makeRequest, whose first pass calls fetch:
\* the request leaves
Requesting(request) ==
    /\ pc = "idle"
    /\ Enter
    /\ wire' = <<Sent(0, request, now)>>

\* The worker receives a request that was sent and handles it (a worker
\* without KV binding has no await of its own), whatever the client has come
\* to by then: it may have given the attempt up and be asleep, or have sent
\* the next one, or have finished
HandleRequest ==
    \E i \in 1..Len(wire), d1 \in {0, 1}, d2 \in {0, 1}, rnd \in RandomSuffixes :
        LET request == wire[i].request
            out == fetch(request, d1, d2, rnd)
        IN  /\ ~wire[i].handled
            \* only createPayment reads the clock and draws an id
            /\ request.method = "GET" => d1 = 0 /\ d2 = 0 /\ rnd = <<"z">>
            /\ request.method = "POST" => Len(paymentsStore) < MaxPayments
            /\ paymentsStore' = out.store
            /\ kv' = out.kv
            /\ now' = out.now
            /\ resp' = out.resp
            /\ call' = HttpCall(request)
            /\ wire' = [wire EXCEPT ![i].handled = TRUE, ![i].resp = out.resp]
            /\ UNCHANGED <<hasKV, listParams>>
            /\ UNCHANGED <<clientVars, pollVars, verifyVars, concVars>>

\* what makeRequest sees of a Response of the worker, whose bodies are JSON:
\* response.ok is status in 200..299
Seen(response) ==
    [kind |-> IF response.status \in 200..299 THEN "ok" ELSE "http",
     status |-> response.status, body |-> "json"]

\* What the pending fetch can settle with once the worker has handled its
\* request: the worker's Response
WorkerAnswers ==
    LET sent == wire[attempt + 1] IN
    IF sent.handled THEN {[seen |-> Seen(sent.resp), resp |-> sent.resp]} ELSE {}

\* What the pending fetch can settle with whether or not the worker has
\* handled, or will handle, its request: the fetch rejects (the request or
\* the answer was lost), the timer aborts it (the answer is late), or
\* something between the two answers in the worker's place with an error of
\* its own
FailedAnswers ==
    {[seen |-> outcome, resp |-> NoResponse] :
        outcome \in {[kind |-> "network", status |-> 0, body |-> "none"],
                     [kind |-> "timeout", status |-> 0, body |-> "none"],
                     [kind |-> "http", status |-> 500, body |-> "apierror"],
                     [kind |-> "http", status |-> 502, body |-> "text"]}}

\* the later of two instants
Later(a, b) == IF a > b THEN a ELSE b

\* lines 173-182: the pending fetch of the running attempt settles with one
\* of the answers: with its status line and headers, the body still to come,
\* or with a rejection or an abort, which is caught; an attempt that times
\* out ends when its timer fires, this.timeout ms after the fetch was called
Answered(answers) ==
    /\ pc = "fetch"
    /\ \E answer \in answers :
          /\ Settle(answer.seen)
          /\ now' = IF answer.seen.kind = "timeout"
                    THEN Later(now, wire[attempt + 1].at + timeout)
                    ELSE now
          /\ wire' = [wire EXCEPT ![attempt + 1].answer = answer,
                                  ![attempt + 1].endedAt = now']
          /\ resp' = IF answer.seen.kind \in {"ok", "http"} THEN resp ELSE NoResponse
    /\ UNCHANGED <<paymentsStore, kv, hasKV, call>>

\* lines 183-200: the body of the answer arrives and makeRequest runs on to
\* its return, its sleep or its throw
Received ==
    /\ BodyRead(wire[attempt + 1].answer.seen)
    /\ resp' = wire[attempt + 1].answer.resp
    /\ wire' = [wire EXCEPT ![attempt + 1].endedAt = now]
    /\ UNCHANGED <<paymentsStore, kv, hasKV, now, call>>

\* what an attempt of the POST of initiatePayment comes to
CreateOutcomes == WorkerAnswers \cup FailedAnswers

\* initiatePayment(request) is called on a new client
InitiatePayment ==
    /\ Requesting(InitiateRequest)
    /\ UNCHANGED <<paymentsStore, kv, hasKV, now, call, resp>>
    /\ UNCHANGED <<pollVars, verifyVars, concVars, listParams>>

\* the fetch of one attempt of the POST settles
AttemptCreate ==
    /\ Answered(CreateOutcomes)
    /\ UNCHANGED <<pollVars, verifyVars, concVars, listParams>>

\* the body of an answer to initiatePayment or listPayments arrives
ReceiveBody ==
    /\ Received
    /\ UNCHANGED <<pollVars, verifyVars, concVars, listParams>>

\* the timer of the sleep before a retry fires, its length after it was set
\* (lines 198, 244), and the next pass of the loop sends the request again
WakeAfterSleep ==
    /\ Resume
    /\ now' = Later(now, wire[attempt + 1].endedAt + sleeps[Len(sleeps)])
    /\ wire' = Append(wire, Sent(attempt + 1, wire[1].request, now'))
    /\ UNCHANGED <<paymentsStore, kv, hasKV, call, resp>>
    /\ UNCHANGED <<pollVars, verifyVars, concVars, listParams>>

----------------------------------------------------------------------------
(* PaymentButton: handlePayment and pollPaymentStatus *)

\* PaymentButton.tsx:77: const maxAttempts = 60
MAX_ATTEMPTS == 60

\* the id of the payment the run-th pollPaymentStatus call is given
PolledId(run) == <<"pay", run>>

\* what one client.checkPaymentStatus of a poll callback comes to: a payment
\* in some status, or a thrown error
PollOutcomes == PaymentStatus \cup {"throws"}

\* client.ts lines 185-195 and 230-238: err.message of the Error a public
\* method throws when the last attempt came to the outcome: the fallback of
\* line 185 takes response.statusText for the message of a body that is no
\* JSON, an error body with a statusCode gives its own message, one without
\* is turned into new Error(String(body)), and the Errors of fetch and of
\* response.json() are thrown as they are
ThrownMessage(outcome) ==
    CASE outcome.kind = "http" /\ outcome.body = "json" -> "[object Object]"
      [] outcome.kind = "http" /\ outcome.body = "apierror" -> "API Error (500): boom"
      [] outcome.kind = "http" -> "API Error (502): Bad Gateway"
      [] outcome.kind = "ok" -> "Unexpected end of JSON input"
      [] outcome.kind = "timeout" -> "This operation was aborted"
      [] OTHER -> "fetch failed"
ThrownMessages ==
    {ThrownMessage(outcome) : outcome \in {o \in FetchOutcomes : ~Returns(o) /\ ~Stalls(o)}}

\* the onSuccess / onError calls of the component, with the pollPaymentStatus
\* call that made them (0: handlePayment itself)
Success(paymentId, run) == [kind |-> "success", text |-> paymentId, run |-> run]
Failure(message, run) == [kind |-> "error", text |-> message, run |-> run]

\* a callback without the ceiling on the number of attempts
PollVerdictNoCeiling(status, n) ==
    CASE status = "completed" -> "success"
      [] status \in {"failed", "cancelled"} -> "terminated"
      [] status = "throws" -> "threw"
      [] OTHER -> "continue"
\* a callback whose catch swallows the error and lets the interval go on
PollVerdictSwallow(status, n) ==
    CASE status = "completed" -> "success"
      [] status \in {"failed", "cancelled"} -> "terminated"
      [] status = "throws" -> "continue"
      [] n >= MAX_ATTEMPTS -> "timeout"
      [] OTHER -> "continue"
\* a callback that also takes a payment being processed for a paid one
PollVerdictLoose(status, n) ==
    CASE status \in {"completed", "processing"} -> "success"
      [] status \in {"failed", "cancelled"} -> "terminated"
      [] status = "throws" -> "threw"
      [] n >= MAX_ATTEMPTS -> "timeout"
      [] OTHER -> "continue"
\* lines 85-114: the branch the callback takes for the answer of its status
\* request, attempts being the shared counter as it stands at that moment
PollVerdict(status, n) ==
    CASE status = "completed" -> "success"
      [] status \in {"failed", "cancelled"} -> "terminated"
      [] status = "throws" -> "threw"
      [] n >= MAX_ATTEMPTS -> "timeout"
      [] OTHER -> "continue"

\* lines 88-112: the message of the error the branch reports; the catch
\* reports err.message, what checkPaymentStatus throws being an Error always
PollMessage(verdict, status, message) ==
    CASE verdict = "terminated" -> "Payment " \o status
      [] verdict = "timeout" -> "Payment timeout"
      [] OTHER -> message

RECURSIVE Sum(_)
Sum(counts) == IF counts = <<>> THEN 0 ELSE Head(counts) + Sum(Tail(counts))

\* lines 42-59: the button (disabled while loading) is clicked: setLoading(true),
\* setError(null), and handlePayment awaits client.initiatePayment
HandlePayment ==
    /\ component = Polling
    /\ mounted
    /\ ~loading
    /\ clicks < MaxClicks
    /\ clicks' = clicks + 1
    /\ initiating' = initiating + 1
    /\ loading' = TRUE
    /\ errorText' = ""
    /\ UNCHANGED <<pollInterval, pollAttempts, pollRequests, pollInflight, pollLast,
                   pollRun, reports, mounted, component>>
    /\ UNCHANGED <<serverVars, clientVars, verifyVars, concVars, listParams, wire>>

\* lines 59-74: initiatePayment settles and handlePayment goes on, whether or
\* not the component is still mounted: with a payment url pollPaymentStatus
\* starts (setInterval, attempts = 0); without one nothing more happens; when
\* it threw, the catch reports err.message and resets loading
HandlePaymentResumes ==
    /\ component = Polling
    /\ initiating > 0
    /\ initiating' = initiating - 1
    /\ \/ /\ pollInterval' = Append(pollInterval, TRUE)
          /\ pollAttempts' = Append(pollAttempts, 0)
          /\ pollRequests' = Append(pollRequests, 0)
          /\ pollInflight' = Append(pollInflight, 0)
          /\ UNCHANGED <<loading, errorText, reports>>
       \/ UNCHANGED <<pollInterval, pollAttempts, pollRequests, pollInflight,
                      loading, errorText, reports>>
       \/ \E message \in ThrownMessages :
             /\ errorText' = message
             /\ reports' = Append(reports, Failure(message, 0))
             /\ loading' = FALSE
             /\ UNCHANGED <<pollInterval, pollAttempts, pollRequests, pollInflight>>
    /\ UNCHANGED <<clicks, pollLast, pollRun, mounted, component>>
    /\ UNCHANGED <<serverVars, clientVars, verifyVars, concVars, listParams, wire>>

\* lines 80-83: an interval fires: attempts++ and a status request is sent.
\* The bound on the attempts closes the state space only: the ceiling of line
\* 99 stops every run before the bound is met
PollTickOf(run) ==
    /\ Sum(pollInflight) < MaxInFlight
    /\ run \in 1..Len(pollInterval)
    /\ pollInterval[run]
    /\ pollAttempts[run] < MAX_ATTEMPTS + MaxInFlight
    /\ pollAttempts' = [pollAttempts EXCEPT ![run] = @ + 1]
    /\ pollRequests' = [pollRequests EXCEPT ![run] = @ + 1]
    /\ pollInflight' = [pollInflight EXCEPT ![run] = @ + 1]
    /\ UNCHANGED <<clicks, initiating, pollInterval, pollLast, pollRun, loading,
                   errorText, reports, mounted, component>>
    /\ UNCHANGED <<serverVars, clientVars, verifyVars, concVars, listParams, wire>>

PollTick == \E run \in 1..MaxClicks : PollTickOf(run)

\* lines 83-114: a status request settles and its callback goes on
PollSettleOf(run) ==
    /\ run \in 1..Len(pollInflight)
    /\ pollInflight[run] > 0
    /\ pollInflight' = [pollInflight EXCEPT ![run] = @ - 1]
    /\ pollRun' = run
    /\ \E status \in PollOutcomes :
        \E message \in IF status = "throws" THEN ThrownMessages ELSE {""} :
          LET verdict == PollVerdict(status, pollAttempts[run]) IN
          /\ pollLast' = status
          /\ IF verdict = "continue"
             THEN UNCHANGED <<pollInterval, loading, errorText, reports>>
             ELSE /\ pollInterval' = [pollInterval EXCEPT ![run] = FALSE]
                  /\ loading' = FALSE
                  /\ IF verdict = "success"
                     THEN /\ reports' = Append(reports, Success(PolledId(run), run))
                          /\ UNCHANGED errorText
                     ELSE LET text == PollMessage(verdict, status, message) IN
                          /\ errorText' = text
                          /\ reports' = Append(reports, Failure(text, run))
    /\ UNCHANGED <<clicks, initiating, pollAttempts, pollRequests, mounted, component>>
    /\ UNCHANGED <<serverVars, clientVars, verifyVars, concVars, listParams, wire>>

PollSettle == \E run \in 1..MaxClicks : PollSettleOf(run)

\* the page discards the component: it registers no cleanup (no useEffect, the
\* interval handle is local to pollPaymentStatus), so nothing else changes
Unmount ==
    /\ mounted
    /\ mounted' = FALSE
    /\ UNCHANGED <<clicks, initiating, pollInterval, pollAttempts, pollRequests,
                   pollInflight, pollLast, pollRun, loading, errorText, reports, component>>
    /\ UNCHANGED <<serverVars, clientVars, verifyVars, concVars, listParams, wire>>

\* lines 210-217 of the second declaration: the button (disabled while
\* loading) is clicked: setLoading(true), and handlePayment awaits a timer of
\* one second
PlaceholderPayment ==
    /\ component = Placeholder
    /\ mounted
    /\ ~loading
    /\ clicks < MaxClicks
    /\ clicks' = clicks + 1
    /\ initiating' = initiating + 1
    /\ loading' = TRUE
    /\ UNCHANGED <<pollInterval, pollAttempts, pollRequests, pollInflight, pollLast,
                   pollRun, errorText, reports, mounted, component>>
    /\ UNCHANGED <<serverVars, clientVars, verifyVars, concVars, listParams, wire>>

\* lines 217-228: the timer fires and handlePayment goes on, mounted or not:
\* onSuccess('payment-id-placeholder'), and finally setLoading(false)
PlaceholderResumes ==
    /\ component = Placeholder
    /\ initiating > 0
    /\ initiating' = initiating - 1
    /\ reports' = Append(reports, Success("payment-id-placeholder", 0))
    /\ loading' = FALSE
    /\ UNCHANGED <<clicks, pollInterval, pollAttempts, pollRequests, pollInflight,
                   pollLast, pollRun, errorText, mounted, component>>
    /\ UNCHANGED <<serverVars, clientVars, verifyVars, concVars, listParams, wire>>

\* the page renders a PaymentButton: either declaration of the file
PollInit ==
    /\ ServerIdle /\ ClientIdle /\ VerifyIdle /\ ConcIdle
    /\ Rendered
    /\ component \in {Polling, Placeholder}

PollNext ==
    \/ HandlePayment \/ HandlePaymentResumes \/ PollTick \/ PollSettle \/ Unmount
    \/ PlaceholderPayment \/ PlaceholderResumes

\* One PaymentButton from its first render on
PollSpec == PollInit /\ [][PollNext]_vars

\* The same under two conditions. The browser keeps firing an interval that
\* is set (setInterval, line 79). Every status request returns or throws:
\* this the code does not ensure (makeRequest clears its timer once fetch has
\* resolved, client.ts line 182, and a body that never arrives leaves
\* checkPaymentStatus pending for good); it is the proviso under which
\* termination is stated
PollFairSpec ==
    /\ PollSpec
    /\ \A run \in 1..MaxClicks : WF_vars(PollTickOf(run)) /\ WF_vars(PollSettleOf(run))

----------------------------------------------------------------------------
(* X402Client.verifySignature *)

\* Buffer.from(string): the UTF-8 bytes of a string given as its code units
\* (one byte below U+0080, two bytes below U+0800)
RECURSIVE Utf8(_)
Utf8(units) ==
    IF units = <<>> THEN <<>>
    ELSE LET c == Head(units) IN
         (IF c < 128 THEN <<c>> ELSE <<192 + (c \div 64), 128 + (c % 64)>>)
            \o Utf8(Tail(units))

\* the base64 alphabet of Buffer.prototype.toString('base64')
Base64Alphabet ==
    <<"A", "B", "C", "D", "E", "F", "G", "H", "I", "J", "K", "L", "M", "N", "O", "P",
      "Q", "R", "S", "T", "U", "V", "W", "X", "Y", "Z", "a", "b", "c", "d", "e", "f",
      "g", "h", "i", "j", "k", "l", "m", "n", "o", "p", "q", "r", "s", "t", "u", "v",
      "w", "x", "y", "z", "0", "1", "2", "3", "4", "5", "6", "7", "8", "9", "+", "/">>
Base64Char(sextet) == Base64Alphabet[sextet + 1]

\* toString('base64'): each group of three bytes gives four characters; a last
\* group of one or two bytes gives two or three characters and "=" padding
RECURSIVE Base64(_)
Base64(bytes) ==
    CASE Len(bytes) = 0 -> <<>>
      [] Len(bytes) = 1 ->
            <<Base64Char(bytes[1] \div 4), Base64Char((bytes[1] % 4) * 16), "=", "=">>
      [] Len(bytes) = 2 ->
            <<Base64Char(bytes[1] \div 4),
              Base64Char((bytes[1] % 4) * 16 + (bytes[2] \div 16)),
              Base64Char((bytes[2] % 16) * 4), "=">>
      [] OTHER ->
            <<Base64Char(bytes[1] \div 4),
              Base64Char((bytes[1] % 4) * 16 + (bytes[2] \div 16)),
              Base64Char((bytes[2] % 16) * 4 + (bytes[3] \div 64)),
              Base64Char(bytes[3] % 64)>>
               \o Base64(SubSeq(bytes, 4, Len(bytes)))

\* !this.config.webhookSecret: left out or the empty string
SecretMissing(secret) == ~secret.given \/ secret.units = <<>>

\* a signature that is computed from the secret alone
generateSignatureOfSecret(secret, payload) ==
    Base64(Utf8(IF SecretMissing(secret) THEN <<>> ELSE secret.units))
\* lines 220-225: Buffer.from(secret + payload).toString('base64'), the secret
\* being this.config.webhookSecret || ''
generateSignature(secret, payload) ==
    Base64(Utf8((IF SecretMissing(secret) THEN <<>> ELSE secret.units) \o payload))

\* a verification that throws on a mismatch instead of returning false
verifySignatureThrowing(secret, payload, signature) ==
    IF SecretMissing(secret) THEN "throws"
    ELSE IF signature = generateSignature(secret, payload) THEN "true" ELSE "throws"
\* lines 102-116: throws without a secret, else signature === expectedSignature
verifySignature(secret, payload, signature) ==
    IF SecretMissing(secret) THEN "throws"
    ELSE IF signature = generateSignature(secret, payload) THEN "true" ELSE "false"

\* two byte strings of one length that differ in exactly one byte
OneByteApart(a, b) ==
    /\ Len(a) = Len(b)
    /\ Cardinality({i \in 1..Len(a) : a[i] # b[i]}) = 1

\* the secrets, payloads and signatures verifySignature is applied to:
\* k, k-e-acute; payloads over a, b, e-grave, e-acute
Secrets == {NoSecret, Secret(<<>>), Secret(<<107>>), Secret(<<107, 233>>)}
PayloadUnits == {97, 98, 232, 233}
Payloads == UNION {[1..n -> PayloadUnits] : n \in 0..MaxPayloadLen}
SignatureChars == {"A", "a", "="}
SignatureMutations(signature) ==
    {[signature EXCEPT ![i] = c] : i \in 1..Len(signature), c \in SignatureChars}
        \ {signature}
PayloadMutations(payload) ==
    {p \in Payloads : OneByteApart(Utf8(p), Utf8(payload))}

\* a webhook as it arrives: the pair the sender signed, or that pair with one
\* byte of the payload or of the signature changed on the way
Deliveries(secret, signed) ==
    LET signature == generateSignature(secret, signed) IN
    {<<signed, signature>>}
        \cup {<<p, signature>> : p \in PayloadMutations(signed)}
        \cup {<<signed, s>> : s \in SignatureMutations(signature)}

VerifyInit ==
    /\ ServerIdle
    /\ ClientIdle
    /\ PollIdle
    /\ ConcIdle
    /\ webhookSecret \in Secrets
    /\ vSigned \in Payloads
    /\ \E delivery \in Deliveries(webhookSecret, vSigned) :
          /\ vPayload = delivery[1]
          /\ vSignature = delivery[2]
    /\ vResult = "none"
    /\ verification = NoVerification

\* the webhook handler calls client.verifySignature(payload, signature)
VerifySignature ==
    /\ vResult = "none"
    /\ vResult' = verifySignature(webhookSecret, vPayload, vSignature)
    /\ UNCHANGED <<webhookSecret, vPayload, vSignature, vSigned, verification>>
    /\ UNCHANGED <<serverVars, clientVars, pollVars, concVars, listParams, wire>>

\* verifySignature applied to every delivery of the bounded sets
VerifySpec == VerifyInit /\ [][VerifySignature]_vars

----------------------------------------------------------------------------
(* The worker's handlers interleaved at their awaits *)

\* the transition a record shows: its id, status and updatedAt
Shown(p) == <<p.id, p.status, p.updatedAt>>

\* createPayment line 170: the copy of each stored payment in the KV namespace
RECURSIVE SeedKv(_)
SeedKv(store) ==
    IF store = <<>> THEN <<>>
    ELSE KvPut(SeedKv(Tail(store)), Head(store).id, JsonClone(Head(store)), 0, KV_TTL_S)

\* A worker that holds payments, with their copies in the KV namespace when
\* one is bound, and no request under way
ConcInit ==
    /\ paymentsStore \in SeededStores
    /\ hasKV \in BOOLEAN
    /\ kv = IF hasKV THEN SeedKv(paymentsStore) ELSE <<>>
    /\ now = 0
    /\ call = NoCall
    /\ resp = NoResponse
    /\ pending = <<>>
    /\ history = {Shown(paymentsStore[i]) : i \in 1..Len(paymentsStore)}
    /\ listParams = NoParams
    /\ wire = <<>>
    /\ ClientIdle
    /\ PollIdle
    /\ VerifyIdle

\* the records of a store as they show
ShownIn(store) == {Shown(store[i]) : i \in 1..Len(store)}

\* cancelPayment lines 219-241, run to its response or up to its await, the
\* transition it makes being recorded
CancelStart ==
    \E id \in KnownIds :
        /\ Begin(cancelPayment(id), Call("cancel", id, NoBody, NoQuery), MaxPending)
        /\ history' = IF cancelPayment(id).resp.status = 200
                       THEN history \cup {<<id, "cancelled", now>>}
                       ELSE history

ConcNext == CancelStart \/ CancelFinish \/ OpGet \/ GetFinish \/ OpList \/ Tick

\* Cancels, gets and lists of a worker in any interleaving the awaits allow
ConcSpec == ConcInit /\ [][ConcNext]_vars

\* the body of the creations that are interleaved
RaceBody == JsonObject(Num(1000), Str("USD"), Str("order"))

\* createPayment lines 147-170 for a valid body, run to its response or up to
\* its await, the record it stores being recorded
CreateStart ==
    /\ Len(paymentsStore) < MaxPayments
    /\ \E d1 \in {0, 1}, d2 \in {0, 1}, rnd \in RandomSuffixes :
          /\ TicksTaken + d1 + d2 <= MaxTicks
          /\ Begin(createPayment(RaceBody, d1, d2, rnd),
                   Call("create", <<>>, RaceBody, NoQuery), MaxPending)
          /\ history' = history \cup ShownIn(createPayment(RaceBody, d1, d2, rnd).store)

RaceNext == CreateStart \/ CreateFinish \/ CancelStart \/ CancelFinish \/ Tick

\* Creations and cancels of a worker in any interleaving the awaits allow
RaceSpec == Init /\ [][RaceNext]_vars

----------------------------------------------------------------------------
(* The worker's isolate is replaced *)

\* worker/index.ts line 14: paymentsStore is a module-level Map, created anew
\* whenever the runtime starts an isolate for the worker (it does so when no
\* request of the old one is under way); the KV namespace is outside the
\* isolate and keeps what was put
IsolateReset ==
    /\ paymentsStore # <<>>
    /\ pending = <<>>
    /\ paymentsStore' = <<>>
    /\ call' = NoCall
    /\ resp' = NoResponse
    /\ UNCHANGED <<kv, hasKV, now>>
    /\ UNCHANGED <<clientVars, pollVars, verifyVars, concVars, listParams, wire>>

ResetNext ==
    OpGet \/ GetFinish \/ OpCancel \/ CancelFinish \/ OpList \/ IsolateReset \/ Tick

\* Gets, cancels and lists of a worker whose payments have
\* their copies in the KV namespace, across replacements of the isolate
ResetSpec == ConcInit /\ [][ResetNext]_vars

----------------------------------------------------------------------------
(* X402Client.verifyPayment *)

\* a verification that also accepts a payment still being processed
verifyPaymentLenient(answer, at) ==
    LET payment == answer.payments[1] IN
    Verification("returned", payment.status \in {"completed", "processing"},
                 payment.id, payment.status, at)
\* client.ts lines 124-131: the PaymentVerification built from the payment
\* checkPaymentStatus returned, verifiedAt being the client's clock by then
verifyPayment(answer, at) ==
    LET payment == answer.payments[1] IN
    Verification("returned", payment.status = "completed",
                 payment.id, payment.status, at)

\* client.ts lines 50-53: the request of checkPaymentStatus(paymentId)
StatusRequest(paymentId) ==
    Request("GET", <<SegApi, SegPayments, paymentId>>, NoBody, NoQuery, "")

\* the id another deployment may answer with in place of the id asked for
OtherId == <<"p","a","y","-","2">>

\* config.baseUrl names the service (https://api.x402.dev when left out,
\* client.ts line 23): where it is not this worker but another deployment,
\* the status request is answered 200 with the payment that deployment holds,
\* in whatever status it has
OtherDeployment(paymentId) ==
    {[seen |-> [kind |-> "ok", status |-> 200, body |-> "json"],
      resp |-> jsonResponse("getPayment",
                            <<[SeedPayment(<<"s","1">>, st) EXCEPT !.id = id]>>, 200)] :
        st \in PaymentStatus, id \in {paymentId, OtherId}}

\* what an attempt of the status request comes to
StatusAnswers(paymentId) ==
    WorkerAnswers \cup FailedAnswers \cup OtherDeployment(paymentId)

\* client.verifyPayment(id) is called: checkPaymentStatus enters makeRequest
VerifyPaymentCall ==
    /\ \E id \in KnownIds : Requesting(StatusRequest(id))
    /\ verification' = NoVerification
    /\ UNCHANGED <<paymentsStore, kv, hasKV, now, call, resp>>
    /\ UNCHANGED <<webhookSecret, vPayload, vSignature, vSigned, vResult>>
    /\ UNCHANGED <<pollVars, concVars, listParams>>

\* what verifyPayment has come to once makeRequest has gone on: when it
\* returns, verifyPayment builds its result from the payment received, and
\* when it throws, checkPaymentStatus and verifyPayment rethrow
Verified ==
    verification' =
        CASE pc' = "returned" -> verifyPayment(resp', now')
          [] pc' = "thrown" -> Verification("thrown", FALSE, <<>>, "", now')
          [] OTHER -> verification

\* the fetch of one attempt of the status request settles
AttemptStatus ==
    /\ Answered(StatusAnswers(wire[1].request.path[3]))
    /\ Verified
    /\ UNCHANGED <<webhookSecret, vPayload, vSignature, vSigned, vResult>>
    /\ UNCHANGED <<pollVars, concVars, listParams>>

\* the body of an answer to the status request arrives
StatusBody ==
    /\ Received
    /\ Verified
    /\ UNCHANGED <<webhookSecret, vPayload, vSignature, vSigned, vResult>>
    /\ UNCHANGED <<pollVars, concVars, listParams>>

\* the Map after createPayment has stored up to two valid requests at
\* instant 0
CreatedStores ==
    {<<>>,
     <<SeedPayment(<<"s","1">>, "awaiting_payment")>>,
     <<SeedPayment(<<"s","1">>, "awaiting_payment"),
       SeedPayment(<<"s","2">>, "awaiting_payment")>>}

\* options.retries of the clients that call the worker
ResendOptions == {Num(n) : n \in 1..MaxResends}

\* new X402Client(config, { retries }) beside a worker without KV binding
\* that holds one of the stores
BesideWorker(stores) ==
    /\ paymentsStore \in stores
    /\ kv = <<>>
    /\ hasKV = FALSE
    /\ now = 0
    /\ call = NoCall
    /\ resp = NoResponse
    /\ PollIdle
    /\ VerifyIdle
    /\ ConcIdle
    /\ timer = "none"
    /\ optRetries \in ResendOptions
    /\ retries = ConstructRetries(optRetries)
    /\ timeout = ConstructTimeout(Undefined)
    /\ pc = "idle"
    /\ attempt = 0
    /\ lastError = NoError
    /\ attempts = <<>>
    /\ sleeps = <<>>
    /\ result = NoError

InitiateNext ==
    InitiatePayment \/ HandleRequest \/ AttemptCreate \/ ReceiveBody \/ WakeAfterSleep

VerifyPaymentNext ==
    VerifyPaymentCall \/ HandleRequest \/ AttemptStatus \/ StatusBody \/ WakeAfterSleep

\* One initiatePayment call of a new client against a worker that holds nothing
InitiateSpec == BesideWorker({<<>>}) /\ [][InitiateNext]_vars

\* One verifyPayment call of a new client
VerifyPaymentSpec == BesideWorker(CreatedStores) /\ [][VerifyPaymentNext]_vars

----------------------------------------------------------------------------
(* X402Client.listPayments against the worker *)

\* a parameter that is set only when it is truthy: if (params?.x) set('x', ...)
SetIfTruthy(v, text) == IF Truthy(v) THEN text ELSE <<>>

\* client.ts lines 146-149: the query string of listPayments(params); a
\* parameter that is not set is absent from the URL
clientListQuery(params) ==
    Query(SetIfTruthy(params.limit, DecString(params.limit.n)),
          SetIfTruthy(params.offset, DecString(params.offset.n)),
          IF Truthy(params.status) THEN params.status.s ELSE "")

ListParamsGiven ==
    {ListParams(l, o, st) : l \in {Undefined, Num(0), Num(1), Num(2)},
                            o \in {Undefined, Num(0), Num(1)},
                            st \in {Undefined, Str("cancelled")}}

\* client.ts lines 145-153: client.listPayments(params) is called and enters
\* makeRequest with GET /api/payments?<query>
ClientListPayments ==
    /\ \E params \in ListParamsGiven :
          /\ listParams' = params
          /\ Requesting(Request("GET", <<SegApi, SegPayments>>, NoBody,
                                clientListQuery(params), ""))
    /\ UNCHANGED <<paymentsStore, kv, hasKV, now, call, resp>>
    /\ UNCHANGED <<pollVars, verifyVars, concVars>>

\* what an attempt of the list request comes to
ListAnswers == WorkerAnswers \cup FailedAnswers

\* the fetch of one attempt of the list request settles
AttemptList ==
    /\ Answered(ListAnswers)
    /\ UNCHANGED <<pollVars, verifyVars, concVars, listParams>>

ListNext ==
    ClientListPayments \/ HandleRequest \/ AttemptList \/ ReceiveBody \/ WakeAfterSleep

\* One listPayments call of a new client
ListSpec == BesideWorker(CreatedStores) /\ [][ListNext]_vars

----------------------------------------------------------------------------
(* Claims *)

Stored(id) == MapGet(paymentsStore, id)[1]
IsHttpGet(c, id) ==
    c.op = "fetch" /\ c.method = "GET" /\ c.path = <<SegApi, SegPayments, id>>
IsHttpCancel(c, id) ==
    c.op = "fetch" /\ c.method = "POST" /\ c.path = <<SegApi, SegPayments, id, SegCancel>>
\* the step is the landing of a suspended handler's put, and its answer
Finishes == Len(pending') < Len(pending)
\* the step leaves a handler suspended at its put
Suspending == Len(pending') > Len(pending)
\* the step takes a cancel of id up to its answer or its await
CancelBegins(id) == call'.op = "cancel" /\ call'.id = id /\ ~Finishes
\* the step answers a cancel of id
CancelAnswered(id) == call'.op = "cancel" /\ call'.id = id /\ ~Suspending

\* C1: over the HTTP surface, a GET /api/payments/{id} of an id that a
\* successful POST /api/payments returned is answered 200 with the stored
\* record, and 404 is answered only for ids that were never created.  (The Map
\* never drops a key, so the ids created are the Map's keys.)
C1_CreateGetRoundTrip ==
    \A id \in KnownIds :
        IsHttpGet(call, id) =>
            /\ id \in MapKeys(paymentsStore) =>
                  resp.status = 200 /\ resp.payments = <<Stored(id)>>
            /\ resp.status = 404 => id \notin MapKeys(paymentsStore)

\* C2: after a successful create, a cancel of the returned id through the cancel
\* endpoint is answered with status cancelled, every later get of the id
\* reports cancelled, and no later request reverts the stored status.
C2_CancelSticks ==
    [][\A id \in MapKeys(paymentsStore) :
          /\ (IsHttpCancel(call', id) /\ Stored(id).status # "completed") =>
                /\ resp'.status = 200
                /\ resp'.payments # <<>>
                /\ resp'.payments[1].status = "cancelled"
                /\ MapGet(paymentsStore', id)[1].status = "cancelled"
          /\ Stored(id).status = "cancelled" =>
                /\ MapGet(paymentsStore', id)[1].status = "cancelled"
                /\ IsHttpGet(call', id) =>
                      /\ resp'.status = 200
                      /\ resp'.payments # <<>>
                      /\ resp'.payments[1].status = "cancelled"]_vars

\* C3: terminal statuses are absorbing: a stored payment whose status is
\* completed, failed, cancelled or expired keeps that status through every
\* operation of the service.
C3_TerminalAbsorbing ==
    [][\A id \in MapKeys(paymentsStore) :
          Stored(id).status \in TerminalStatus =>
              /\ MapHas(paymentsStore', id)
              /\ MapGet(paymentsStore', id)[1].status = Stored(id).status]_vars

\* C4: cancel of a stored payment whose status is completed is answered 400
\* Invalid Operation and leaves both stores as they were; cancel of a stored
\* payment whose status is awaiting_payment or processing is answered 200 and
\* the payment, stored and returned, has status cancelled.
C4_CancelByStatus ==
    [][\A id \in MapKeys(paymentsStore) :
          /\ (CancelBegins(id) /\ Stored(id).status = "completed") =>
                /\ resp'.status = 400
                /\ resp'.error = "Invalid Operation"
                /\ paymentsStore' = paymentsStore
                /\ kv' = kv
          /\ (CancelBegins(id)
                 /\ Stored(id).status \in {"awaiting_payment", "processing"}) =>
                /\ MapGet(paymentsStore', id)[1].status = "cancelled"
                /\ Suspending =>
                      /\ pending'[Len(pending')].op = "cancel"
                      /\ pending'[Len(pending')].id = id
                      /\ pending'[Len(pending')].value.status = "cancelled"
          /\ (CancelAnswered(id)
                 /\ (Finishes \/ Stored(id).status \in {"awaiting_payment", "processing"})) =>
                /\ resp'.status = 200
                /\ Len(resp'.payments) = 1
                /\ resp'.payments[1].id = id
                /\ resp'.payments[1].status = "cancelled"]_vars

\* a cancel of a completed payment has been refused
C4_Witness ==
    /\ call.op = "cancel"
    /\ MapHas(paymentsStore, call.id)
    /\ Stored(call.id).status = "completed"
    /\ resp.status = 400

\* C5: expiry is observed on read: a get of a stored payment whose expiresAt is
\* earlier than the current time and whose stored status is not terminal
\* returns the payment with status expired.
C5_ExpiryOnRead ==
    (call.op = "get" /\ MapHas(paymentsStore, call.id)
        /\ Stored(call.id).expiresAt < now
        /\ Stored(call.id).status \notin TerminalStatus)
    => /\ resp.status = 200
       /\ resp.payments # <<>>
       /\ resp.payments[1].status = "expired"

\* C6: a successful create returns and stores a payment with status
\* awaiting_payment, and no payment in a response of create, get, list or
\* cancel has status pending.
C6_NeverPending ==
    /\ (resp.kind = "createPayment" /\ resp.status = 201) =>
          /\ Len(resp.payments) = 1
          /\ resp.payments[1].status = "awaiting_payment"
          /\ MapHas(paymentsStore, resp.payments[1].id)
          /\ Stored(resp.payments[1].id).status = "awaiting_payment"
    /\ \A i \in 1..Len(resp.payments) : resp.payments[i].status # "pending"

\* C7: for every payment create produced, expiresAt = createdAt + one hour,
\* whatever the clock does between the steps of create, for the record's life.
C7_ExpiresOneHourAfterCreated ==
    \A i \in 1..Len(paymentsStore) :
        paymentsStore[i].expiresAt = paymentsStore[i].createdAt + TTL_MS

\* the request carries no amount, or carries the number 0 or a negative number
AmountMissingOrNotPositive(body) ==
    \/ body.kind # "object"
    \/ body.amount.t \in {"undefined", "null"}
    \/ body.amount.t = "number" /\ body.amount.n <= 0
CurrencyMissing(body) ==
    body.kind # "object" \/ body.currency.t \in {"undefined", "null"}

\* C8: a create request whose amount is missing, zero or negative, or whose
\* currency is missing, is answered 400 and leaves the Map and the KV
\* namespace exactly as they were.
C8_InvalidCreateRejected ==
    [][(call'.op = "create"
          /\ (AmountMissingOrNotPositive(call'.body) \/ CurrencyMissing(call'.body)))
       => /\ resp'.status = 400
          /\ paymentsStore' = paymentsStore
          /\ kv' = kv]_vars

\* C9: every stored payment has amount > 0 and a non-empty currency.
C9_StoredAmountPositive ==
    \A i \in 1..Len(paymentsStore) :
        /\ paymentsStore[i].amount.t = "number"
        /\ paymentsStore[i].amount.n > 0
        /\ paymentsStore[i].currency.t = "string"
        /\ paymentsStore[i].currency.s # ""

\* maxRetries as the caller configured it: options.retries, 3 when left out
ConfiguredRetries ==
    IF optRetries.t = "number" THEN optRetries.n ELSE DEFAULT_RETRIES

\* C10: for every configured maxRetries n >= 0, n = 0 included, a request whose
\* every attempt fails is surfaced after exactly n + 1 attempts (n retries).
C10_ExactlyConfiguredRetries ==
    pc = "thrown" => Len(attempts) = ConfiguredRetries + 1

\* C11: the delay waited before the k-th retry (k >= 1) is exactly 2^(k-1)
\* seconds, with no jitter, and no delay is waited after the last failed
\* attempt: a call that throws has slept once per retry, never after the last.
C11_BackoffSchedule ==
    /\ \A k \in 1..Len(sleeps) : sleeps[k] = Pow2(k - 1) * 1000
    /\ pc = "thrown" => Len(sleeps) = Len(attempts) - 1
    /\ pc = "sleep" => Len(sleeps) = Len(attempts)
    /\ pc = "fetch" => Len(sleeps) = Len(attempts)

\* a call has thrown after three retries, having slept 1 s, 2 s and 4 s
C11_Witness ==
    /\ pc = "thrown"
    /\ sleeps = <<1000, 2000, 4000>>

\* C12: on the first attempt that receives a 2xx response the call returns that
\* response at once, with no backoff delay and no further attempt: an attempt
\* answered 2xx (its body delivered in full) is the last one of the call and
\* the call has returned; a call whose first attempt is such never sleeps.
C12_ReturnsOnFirst2xx ==
    \A k \in 1..Len(attempts) :
        (attempts[k].kind = "ok" /\ attempts[k].body # "stall")
            => /\ k = Len(attempts)
               /\ pc = "returned"
               /\ (k = 1 => sleeps = <<>>)

\* the service's definitive answers: validation failure or invalid operation
\* (400) and not found (404)
Definitive(outcome) == outcome.kind = "http" /\ outcome.status \in {400, 404}

\* C13: definitive service errors are never retried: a call whose first attempt
\* is answered 400 or 404 makes exactly that one attempt and throws without
\* any backoff delay.
C13_DefinitiveNeverRetried ==
    (Len(attempts) >= 1 /\ Definitive(attempts[1]) /\ ~Stalls(attempts[1]))
        => /\ pc = "thrown"
           /\ Len(attempts) = 1
           /\ sleeps = <<>>

\* what the caller of a public method catches when makeRequest has thrown
Surfaced == clientHandleError(CaughtError(result))

\* C14: after the retries are exhausted the error surfaced is that of the last
\* attempt with its classification preserved: an HTTP error status surfaces as
\* an API error carrying that status code, a network or timeout failure as the
\* network error itself.
C14_ClassificationPreserved ==
    pc = "thrown" =>
        /\ result = attempts[Len(attempts)]
        /\ result.kind = "http" =>
              /\ Surfaced.message = "API Error"
              /\ Surfaced.status = result.status
        /\ result.kind \in {"network", "timeout"} =>
              /\ Surfaced.name \in {"TypeError", "AbortError"}
              /\ Surfaced.message # "API Error"

\* C15: every call terminates: an attempt that has no complete response yet is
\* under its own armed timeout, which aborts it and counts it as failed, and
\* the call makes at most retries + 1 attempts.
C15_EveryAttemptTimed ==
    /\ Len(attempts) <= retries + 1
    /\ pc \in {"fetch", "stalled"} => timer = "armed"

\* the pollPaymentStatus calls made so far
Runs == 1..Len(pollInterval)

\* a step in which a status request of a polling settles (that of pollRun')
Settles == Sum(pollInflight') = Sum(pollInflight) - 1

\* the onSuccess / onError calls a pollPaymentStatus call has made
ReportsOf(run) == SelectSeq(reports, LAMBDA report : report.run = run)

\* C16: polling resolves on the cycle whose fetched status is completed: on
\* that cycle the interval is cleared and success is reported for the polled
\* payment id; a polling run never reports success on a cycle whose fetched
\* status is not completed.
C16_ResolvesOnCompleted ==
    [][/\ (Settles /\ pollLast' = "completed")
             => /\ ~pollInterval'[pollRun']
                /\ reports' = Append(reports, Success(PolledId(pollRun'), pollRun'))
       /\ (/\ Len(reports') > Len(reports)
           /\ reports'[Len(reports')].kind = "success"
           /\ reports'[Len(reports')].run \in 1..Len(pollInterval'))
             => /\ Settles
                /\ pollLast' = "completed"]_vars

\* the third status request found the payment completed: polling has stopped
\* and success was reported once
C16_Witness ==
    /\ pollLast = "completed"
    /\ pollRequests = <<3>>
    /\ pollInterval = <<FALSE>>
    /\ reports = <<Success(PolledId(1), 1)>>

\* C17: polling exits with failure as soon as the fetched status is failed,
\* cancelled or expired: on the cycle whose status request finds one of the
\* three, the interval is cleared and an error carrying that status is
\* reported.
C17_ExitsOnTerminalFailure ==
    [][(Settles /\ pollLast' \in {"failed", "cancelled", "expired"})
          => /\ ~pollInterval'[pollRun']
             /\ reports' = Append(reports,
                                  Failure("Payment " \o pollLast', pollRun'))]_vars

\* C18: when the fetched status never becomes terminal, a polling issues at
\* most 60 status requests, also when individual requests are slow, and has
\* stopped with a polling-timeout failure once the 60th request has been
\* answered.
C18_AttemptCeiling ==
    \A run \in Runs :
        /\ pollRequests[run] <= MAX_ATTEMPTS
        /\ (pollRequests[run] >= MAX_ATTEMPTS /\ pollInflight[run] = 0)
              => /\ ~pollInterval[run]
                 /\ ReportsOf(run) # <<>>

\* C19: polling is cancellable by its caller: once the caller has discarded
\* the component that started it, no further status request is scheduled.
C19_CancelStopsPolling ==
    ~mounted => \A run \in Runs : ~pollInterval[run]

\* C20: with a configured secret, verifySignature returns true for the
\* signature the client's own signature function gives for the same payload
\* and secret, and false for every payload or signature that differs from that
\* pair in a single byte.
C20_VerifyAcceptsOnlyOwnSignature ==
    (vResult # "none" /\ ~SecretMissing(webhookSecret)) =>
        LET signature == generateSignature(webhookSecret, vSigned) IN
        /\ (vPayload = vSigned /\ vSignature = signature) => vResult = "true"
        /\ (OneByteApart(Utf8(vPayload), Utf8(vSigned)) /\ vSignature = signature)
              => vResult = "false"
        /\ (vPayload = vSigned /\ OneByteApart(vSignature, signature))
              => vResult = "false"

\* a two-character payload whose last byte was changed on the way was refused
\* under the secret "k"
C20_Witness ==
    /\ vResult = "false"
    /\ webhookSecret = Secret(<<107>>)
    /\ Len(vSigned) = 2
    /\ OneByteApart(Utf8(vPayload), Utf8(vSigned))
    /\ vSignature = generateSignature(webhookSecret, vSigned)

\* C21: verifySignature never throws on a mismatching signature (it returns
\* false) and fails with an error only when no webhook secret is configured:
\* with a configured secret every (payload, signature) yields a boolean, and
\* a signature other than the expected one yields false.
C21_ThrowsOnlyWithoutSecret ==
    vResult # "none" =>
        /\ vResult = "throws" <=> SecretMissing(webhookSecret)
        /\ ~SecretMissing(webhookSecret) => vResult \in {"true", "false"}
        /\ (/\ ~SecretMissing(webhookSecret)
            /\ vSignature # generateSignature(webhookSecret, vPayload))
              => vResult = "false"

\* under the secret "k-e-acute" a signature with one character changed was
\* answered false
C21_Witness ==
    /\ vResult = "false"
    /\ webhookSecret = Secret(<<107, 233>>)
    /\ vPayload = vSigned
    /\ OneByteApart(vSignature, generateSignature(webhookSecret, vSigned))

\* a request to the protected route has just been answered
IsProtected(c) == c.op = "fetch" /\ c.path = <<SegProtected>>

\* C22: the protected route answers 200 only to a request whose token
\* identifies a payment with status completed, so only while the store holds
\* a completed payment; every other request is answered 402 with the payment
\* challenge.
C22_PayloadOnlyForCompleted ==
    IsProtected(call) =>
        /\ resp.status \in {200, 402}
        /\ resp.status = 200 =>
              /\ call.token # ""
              /\ \E i \in 1..Len(paymentsStore) : paymentsStore[i].status = "completed"
        /\ resp.status = 402 => resp.challenge # <<>>

\* C23: a request to the protected route without proof is answered 402 with a
\* challenge naming a payment that has been created in the store: the
\* challenge's payment id is a key of the store and its record has status
\* awaiting_payment.
C23_ChallengePaymentStored ==
    (IsProtected(call) /\ call.token = "") =>
        /\ resp.status = 402
        /\ MapHas(paymentsStore, resp.challenge)
        /\ Stored(resp.challenge).status = "awaiting_payment"

\* the number a query parameter stands for, dflt when it is left out
QueryNumber(s, dflt) == IF s = <<>> THEN dflt ELSE ParseDigits(s, 0)
\* positions of the stored records that match a status filter ("" for none)
Matching(status) ==
    {i \in 1..Len(paymentsStore) : status = "" \/ paymentsStore[i].status = status}
\* the orderings of a set of stored records by createdAt, newest first
NewestFirstOrders(positions) ==
    {order \in [1..Cardinality(positions) -> positions] :
        /\ \A j, k \in DOMAIN order : j # k => order[j] # order[k]
        /\ \A j, k \in DOMAIN order :
              j < k => paymentsStore[order[j]].createdAt >= paymentsStore[order[k]].createdAt}

\* C24: list(status?, limit, offset) returns exactly the stored records whose
\* status equals the filter (all records without a filter), ordered by
\* createdAt descending, restricted to positions offset .. offset+limit-1 of
\* that ordering; an empty match yields an empty list and no error.
C24_ListFiltersSortsPaginates ==
    call.op = "list" =>
        LET limit == QueryNumber(call.query.limit, DEFAULT_LIMIT)
            offset == QueryNumber(call.query.offset, 0)
            matching == Matching(call.query.status)
            rest == Cardinality(matching) - offset
            pageLen == IF rest <= 0 THEN 0 ELSE IF limit < rest THEN limit ELSE rest
        IN  /\ resp.status = 200
            /\ Len(resp.payments) = pageLen
            /\ \E order \in NewestFirstOrders(matching) :
                  \A k \in 1..pageLen :
                      resp.payments[k] = JsonClone(paymentsStore[order[offset + k]])

\* two payments created at different instants were both cancelled, and the
\* list of the cancelled ones gave both, the newer one first
C24_Witness ==
    /\ call.op = "list"
    /\ call.query.status = "cancelled"
    /\ Len(resp.payments) = 2
    /\ resp.payments[1].createdAt > resp.payments[2].createdAt
    /\ resp.payments[1].status = "cancelled"

\* C25: cancel is idempotent in effect on already-terminated records: a cancel
\* of a stored payment whose status is cancelled or failed is answered without
\* error and leaves the payment in the status it had.
C25_CancelIdempotentOnTerminated ==
    [][\A id \in MapKeys(paymentsStore) :
          (/\ CancelBegins(id)
           /\ Stored(id).status \in {"cancelled", "failed"})
              => /\ resp'.status = 200 \/ Suspending
                 /\ MapHas(paymentsStore', id)
                 /\ MapGet(paymentsStore', id)[1].status = Stored(id).status]_vars

\* a payment cancelled at one instant has been cancelled again at a later
\* one: the second cancel was answered 200 and the payment is still cancelled
C25_Witness ==
    /\ call.op = "cancel"
    /\ resp.status = 200
    /\ MapHas(paymentsStore, call.id)
    /\ Stored(call.id).status = "cancelled"
    /\ \E t \in 0..now : /\ t < Stored(call.id).updatedAt
                         /\ <<call.id, "cancelled", t>> \in history
    /\ <<call.id, "cancelled", Stored(call.id).updatedAt>> \in history

\* C28: cancel of an id that is not in the store fails with the not-found
\* error (status 404) and changes nothing: no record is created for the id
\* and no stored record is modified.
C28_CancelMissingChangesNothing ==
    [][(CancelBegins(call'.id) /\ ~MapHas(paymentsStore, call'.id))
          => /\ resp'.status = 404
             /\ resp'.error = "Not Found"
             /\ paymentsStore' = paymentsStore
             /\ kv' = kv]_vars

\* a cancel of an id nobody created was answered 404 by a worker that holds
\* two payments
C28_Witness ==
    /\ call.op = "cancel"
    /\ call.id \in ProbeIds
    /\ resp.status = 404
    /\ Len(paymentsStore) = 2
    /\ ~MapHas(paymentsStore, call.id)

\* C30: one polling run reports exactly one outcome: whatever the interleaving
\* of interval ticks and status answers, onSuccess and onError are together
\* invoked at most once by it.
C30_AtMostOneReport ==
    \A run \in Runs : Len(ReportsOf(run)) <= 1

\* the limit and offset the service works with for a query (worker/index.ts
\* lines 258-259)
ServiceLimit(query) == parseInt(OrDefault(query.limit, DecString(DEFAULT_LIMIT)))
ServiceOffset(query) == parseInt(OrDefault(query.offset, <<"0">>))

\* C26: the client's listPayments forwards the caller's status, limit and
\* offset unmodified, limit = 0 and offset = 0 included: every request the
\* service handles makes it work with exactly the values supplied, and it
\* returns no more records than the caller's limit.
C26_ListParamsForwarded ==
    \A i \in 1..Len(wire) :
        wire[i].handled =>
            LET query == wire[i].request.query IN
            /\ listParams.limit.t = "number" =>
                  /\ ServiceLimit(query) = [nan |-> FALSE, n |-> listParams.limit.n]
                  /\ Len(wire[i].resp.payments) <= listParams.limit.n
            /\ listParams.offset.t = "number" =>
                  ServiceOffset(query) = [nan |-> FALSE, n |-> listParams.offset.n]
            /\ listParams.status.t = "string" => query.status = listParams.status.s

\* a record whose status and updatedAt belong to one transition that was made
Consistent(p) == Shown(p) \in history

\* C27: under any interleaving of concurrent cancel, get and list requests,
\* every response and every stored copy (Map, KV, a KV put under way) shows a
\* record whose status and updatedAt belong to the same transition, and once
\* no cancel is under way the Map and the KV copy of a payment agree on its
\* status.
C27_ConsistentSnapshots ==
    /\ \A i \in 1..Len(paymentsStore) : Consistent(paymentsStore[i])
    /\ \A k \in DOMAIN kv : Consistent(kv[k].value)
    /\ \A i \in 1..Len(pending) :
          pending[i].op # "get" => Consistent(pending[i].value)
    /\ \A i \in 1..Len(resp.payments) : Consistent(resp.payments[i])
    /\ pending = <<>> =>
          \A k \in DOMAIN kv :
              MapHas(paymentsStore, k) => kv[k].value.status = Stored(k).status

\* two cancels of one payment, started at different instants, are both
\* suspended at their KV put while a get of that payment is answered
C27_Witness ==
    /\ Len(pending) = 2
    /\ pending[1].op = "cancel"
    /\ pending[2].op = "cancel"
    /\ pending[1].id = pending[2].id
    /\ pending[1].value.updatedAt # pending[2].value.updatedAt
    /\ call.op = "get"
    /\ call.id = pending[1].id
    /\ resp.status = 200
    /\ resp.payments[1].status = "cancelled"

\* C29: at-most-once creation: one call of initiatePayment causes at most one
\* payment record to be created at the service (which held none before),
\* whatever the outcomes of its attempts.
C29_AtMostOnceCreation ==
    Len(paymentsStore) <= 1

\* C39: no timeout timer outlives its request: when a call of makeRequest has
\* returned or thrown, the timer of its last attempt has fired or been
\* cleared, whatever the attempt came to.
C39_NoTimerOutlivesCall ==
    pc \in {"returned", "thrown"} => timer \in {"cleared", "fired"}

\* the fields of a payment that cancel may rewrite
CancelWrites == {"status", "updatedAt"}

\* C33: frame of cancel: a successful cancel changes only the status and
\* updatedAt of the targeted payment, updatedAt being rewritten to a time not
\* earlier than createdAt; its other fields and every other stored payment
\* are left unchanged.
C33_CancelFrame ==
    [][\A id \in MapKeys(paymentsStore) :
          /\ (CancelBegins(id) /\ (resp'.status = 200 \/ Suspending)) =>
                /\ Len(paymentsStore') = Len(paymentsStore)
                /\ \A i \in 1..Len(paymentsStore) :
                      /\ paymentsStore[i].id # id => paymentsStore'[i] = paymentsStore[i]
                      /\ paymentsStore[i].id = id =>
                            /\ \A f \in (DOMAIN paymentsStore[i]) \ CancelWrites :
                                  paymentsStore'[i][f] = paymentsStore[i][f]
                            /\ paymentsStore'[i].status = "cancelled"
                            /\ paymentsStore'[i].updatedAt = now'
                            /\ paymentsStore'[i].updatedAt >= paymentsStore'[i].createdAt
                            /\ Suspending =>
                                  pending'[Len(pending')].value = JsonClone(paymentsStore'[i])
          /\ (CancelAnswered(id) /\ Finishes) =>
                /\ paymentsStore' = paymentsStore
                /\ id \in DOMAIN kv'
                /\ \E i \in 1..Len(pending) :
                      /\ pending[i].op = "cancel"
                      /\ pending[i].id = id
                      /\ kv'[id].value = pending[i].value
          /\ (call'.op = "cancel" /\ call'.id = id) =>
                \A k \in (DOMAIN kv) \ {id} : k \in DOMAIN kv' /\ kv'[k] = kv[k]]_vars

\* of two stored payments the older one was cancelled an hour or more after
\* it was created, the other one is still awaiting payment
C33_Witness ==
    /\ call.op = "cancel"
    /\ resp.status = 200
    /\ Len(paymentsStore) = 2
    /\ paymentsStore[1].id = call.id
    /\ paymentsStore[1].status = "cancelled"
    /\ paymentsStore[1].updatedAt >= paymentsStore[1].createdAt + TTL_MS
    /\ paymentsStore[2].status = "awaiting_payment"

\* the statuses the worker's operations give a payment
ServiceStatus == {"awaiting_payment", "cancelled"}

\* C35: in every state reached through the service's operations each stored
\* payment (Map entry or KV copy) has status awaiting_payment or cancelled,
\* no payment leaves the Map, and the only change of status ever made is
\* awaiting_payment -> cancelled.
C35_OnlyAwaitingOrCancelled ==
    [][/\ \A i \in 1..Len(paymentsStore') : paymentsStore'[i].status \in ServiceStatus
       /\ \A k \in DOMAIN kv' : kv'[k].value.status \in ServiceStatus
       /\ \A id \in MapKeys(paymentsStore) :
             /\ MapHas(paymentsStore', id)
             /\ MapGet(paymentsStore', id)[1].status # Stored(id).status
                   => /\ Stored(id).status = "awaiting_payment"
                      /\ MapGet(paymentsStore', id)[1].status = "cancelled"]_vars

\* C37: a status request that fails during polling ends the polling run: on
\* the cycle whose request throws the interval is cleared and the error is
\* reported through onError, and once its interval is cleared a run sends no
\* further status request.
C37_FailedRequestEndsPolling ==
    [][/\ (Settles /\ pollLast' = "throws")
             => /\ ~pollInterval'[pollRun']
                /\ ~loading'
                /\ Len(reports') = Len(reports) + 1
                /\ reports'[Len(reports')].kind = "error"
                /\ reports'[Len(reports')].run = pollRun'
                /\ reports'[Len(reports')].text \in ThrownMessages
       /\ \A run \in Runs :
             ~pollInterval[run] => /\ ~pollInterval'[run]
                                   /\ pollRequests'[run] = pollRequests[run]
                                   /\ pollAttempts'[run] = pollAttempts[run]]_vars

\* the third status request of a run threw while the interval was running:
\* the interval is cleared, the error is the one report, nothing is in flight
C37_Witness ==
    /\ pollLast = "throws"
    /\ pollRequests = <<3>>
    /\ pollInflight = <<0>>
    /\ pollInterval = <<FALSE>>
    /\ reports = <<Failure("fetch failed", 1)>>

\* C36: polling always eventually stops: when timer ticks are scheduled fairly
\* and every status request eventually returns or throws, a polling run that
\* has set its interval eventually clears it and reports an outcome, whatever
\* statuses the service answers.
C36_PollingEventuallyStops ==
    \A run \in 1..MaxClicks :
        (run \in Runs /\ pollInterval[run])
            ~> (run \in Runs /\ ~pollInterval[run] /\ ReportsOf(run) # <<>>)

\* the service answered nothing but non-terminal statuses: the run stopped at
\* the ceiling with the timeout report
C36_Witness ==
    /\ pollInterval = <<FALSE>>
    /\ pollAttempts = <<MAX_ATTEMPTS>>
    /\ pollRequests = <<MAX_ATTEMPTS>>
    /\ pollInflight = <<0>>
    /\ reports = <<Failure("Payment timeout", 1)>>

\* C38: verifyPayment(id) reports valid = true exactly when the status that
\* checkPaymentStatus(id) returned is completed, and echoes the id and the
\* status of the fetched payment; for pending, awaiting_payment, processing,
\* failed, cancelled and expired valid is false. It reports only when the
\* status request returned, and what it reported stays.
C38_ValidIffCompleted ==
    [][/\ verification'.kind = "returned" <=> pc' = "returned"
       /\ verification'.kind = "thrown" <=> pc' = "thrown"
       /\ pc \in {"returned", "thrown"} => verification' = verification
       /\ (pc # "returned" /\ pc' = "returned") =>
             LET payment == resp'.payments[1] IN
             /\ resp'.status = 200
             /\ verification'.valid <=> payment.status = "completed"
             /\ verification'.paymentId = payment.id
             /\ verification'.status = payment.status
             /\ verification'.status \in PaymentStatus \ {"completed"}
                   => ~verification'.valid
             /\ verification'.verifiedAt = now']_vars

\* a completed payment has been verified on the second attempt, a second
\* after the call began: the worker's router answered the first attempt 404,
\* and the payment received bears another id than the one asked for
C38_Witness ==
    /\ verification.kind = "returned"
    /\ verification.valid
    /\ verification.status = "completed"
    /\ wire[1].request.path[3] \in MapKeys(paymentsStore)
    /\ verification.paymentId = OtherId
    /\ Len(attempts) = 2
    /\ wire[1].handled
    /\ attempts[1].status = 404
    /\ verification.verifiedAt = 1000

\* the ids of the payments a list without parameters shows
Listed == {listPayments(NoQuery).resp.payments[i].id :
              i \in 1..Len(listPayments(NoQuery).resp.payments)}

\* C32: get, cancel and list agree on which payments exist, also when the
\* in-memory map has been reset while the KV namespace still holds records:
\* cancel answers not-found for an id only if get answers not-found for it,
\* and every payment get can return is visible to list.
C32_OperationsAgree ==
    \A id \in KnownIds :
        /\ cancelPayment(id).resp.status = 404 => getPayment(id).resp.status = 404
        /\ getPayment(id).resp.status = 200 => id \in Listed

\* C34: reads are side-effect free: a get, a list or a client verification
\* leaves the in-memory map and the KV namespace as they were.
C34_ReadsChangeNothing ==
    [][call'.op \in {"get", "list"}
          => /\ paymentsStore' = paymentsStore
             /\ kv' = kv]_vars

\* a get answered from the KV namespace alone, the map holding nothing
C34_Witness ==
    /\ call.op = "get"
    /\ resp.status = 200
    /\ paymentsStore = <<>>
    /\ call.id \in DOMAIN kv

\* C31: the in-memory store and the KV namespace agree once the service is
\* quiescent: whatever the interleaving of the creations and cancels of an
\* id, when every request has completed the KV copy of a payment has the
\* status of the in-memory copy.
C31_StoresAgreeAtQuiescence ==
    pending = <<>> =>
        \A id \in MapKeys(paymentsStore) \cap DOMAIN kv :
            kv[id].value.status = Stored(id).status

====
